---- MODULE Spec2Model ----
(***************************************************************************)
(* A model of the Intel 8080 core of the space-invaders emulator           *)
(* (core/src/cpu.rs) and of the calls its host makes on it.                *)
(*                                                                         *)
(* The CPU is the record of its fields; every method of CPU is an          *)
(* operator from a CPU record to a CPU record (with a value where the      *)
(* method returns one).  The arithmetic the source writes with the plain   *)
(* operators +, -, += and -= is checked arithmetic in a build with         *)
(* overflow checks (cargo's dev profile) and wrapping arithmetic in a      *)
(* build without (the release profile): overflow_checks is the build.      *)
(***************************************************************************)
EXTENDS Integers, Sequences, FiniteSets, TLC

VARIABLES
    memory,            \* CPU.memory: address -> byte, the zero bytes left out
    interrupt_status,  \* CPU.interrupt_status
    event,             \* CPU.event: None or one Event
    flags, pc, sp,     \* CPU.flags, CPU.pc, CPU.sp
    a, b, c, d, e, h, l,
    panicked,          \* the process has aborted on an arithmetic overflow
    program,           \* the image given to CPU::new
    overflow_checks,   \* the build: TRUE when arithmetic overflow aborts
    last,              \* the last call made on the CPU, with what it returned
    pre,               \* the CPU record as it was before that call
    prev,              \* the call made before the last one
    nsteps, ncalls,    \* calls made so far: step, and the others
    host,              \* the locals of the host's main loop, and where it stands
    pending            \* PC and SP at each interrupt delivered and not yet returned from

cpu_vars == <<memory, interrupt_status, event, flags, pc, sp, a, b, c, d, e, h, l>>
vars == <<memory, interrupt_status, event, flags, pc, sp, a, b, c, d, e, h, l,
          panicked, program, overflow_checks, last, pre, prev, nsteps, ncalls, host, pending>>

---------------------------------------------------------------------------
(* Bounds of the model. *)

\* step calls in one run
MaxSteps == 6
\* interrupt, port_in, event and reset calls in one run
MaxCalls == 2
\* frames of the host's main loop in one run
MaxFrames == 2

---------------------------------------------------------------------------
(* Bytes, words and bit operations. *)

U8 == 256
U16 == 65536

RECURSIVE BitAnd(_, _)
BitAnd(x, y) ==
    IF x = 0 \/ y = 0 THEN 0
    ELSE (x % 2) * (y % 2) + 2 * BitAnd(x \div 2, y \div 2)

RECURSIVE BitOr(_, _)
BitOr(x, y) ==
    IF x = 0 THEN y
    ELSE IF y = 0 THEN x
    ELSE (IF x % 2 = 1 \/ y % 2 = 1 THEN 1 ELSE 0) + 2 * BitOr(x \div 2, y \div 2)

RECURSIVE BitXor(_, _)
BitXor(x, y) ==
    IF x = 0 THEN y
    ELSE IF y = 0 THEN x
    ELSE ((x + y) % 2) + 2 * BitXor(x \div 2, y \div 2)

RECURSIVE PopCount(_)
PopCount(x) == IF x = 0 THEN 0 ELSE (x % 2) + PopCount(x \div 2)

\* u8::rotate_left(1) and u8::rotate_right(1)
\* rotate_left(1) as it would be if bit 7 were dropped
ShiftLeft(x) == (x * 2) % U8

RotateLeft(x) == ((x * 2) % U8) + (x \div 128)
RotateRight(x) == (x \div 2) + (x % 2) * 128

\* crate::concat_u16!(hi, lo)
concat_u16(hi, lo) == hi * 256 + lo

\* crate::even_parity(byte)
even_parity(val) == PopCount(val) % 2 = 0

CARRY_FLAG == 1
PARITY_FLAG == 4
ZERO_FLAG == 64
SIGN_FLAG == 128

---------------------------------------------------------------------------
(* Memory: 64 KiB, the first 8 KiB of it ROM.  A memory is the function    *)
(* from the addresses of its non-zero bytes to those bytes.                *)

RomSize == 8192

MemRead(m, adr) == IF adr \in DOMAIN m THEN m[adr] ELSE 0

MemWrite(m, adr, val) ==
    IF adr < RomSize THEN m
    ELSE IF val = 0 THEN [x \in DOMAIN m \ {adr} |-> m[x]]
    ELSE [x \in DOMAIN m \cup {adr} |-> IF x = adr THEN val ELSE m[x]]

MemResetRam(m) == [x \in {y \in DOMAIN m : y < RomSize} |-> m[x]]

\* Memory::new(rom): rom is the function from 0..RomSize-1 restricted to its
\* non-zero bytes
MemNew(rom) == rom

---------------------------------------------------------------------------
(* Events and the interrupt latch. *)

None == <<>>
Halt == <<"Halt">>
PortWrite(port, data) == <<"PortWrite", port, data>>
PortRead(port) == <<"PortRead", port>>

Enabled == "Enabled"
Disabled == "Disabled"

---------------------------------------------------------------------------
(* The CPU record and the arithmetic of the build. *)

CPU ==
    [memory |-> memory, interrupt_status |-> interrupt_status, event |-> event,
     flags |-> flags, pc |-> pc, sp |-> sp,
     a |-> a, b |-> b, c |-> c, d |-> d, e |-> e, h |-> h, l |-> l,
     panicked |-> panicked]

Panic(s) == [s EXCEPT !.panicked = TRUE]

\* x + y, x - y, x += y, x -= y on an unsigned integer of the given modulus:
\* raw is the mathematical result
Checked(s, raw, modulus) ==
    IF s.panicked THEN [s |-> s, v |-> 0]
    ELSE IF raw >= 0 /\ raw < modulus THEN [s |-> s, v |-> raw]
    ELSE IF overflow_checks THEN [s |-> Panic(s), v |-> 0]
    ELSE [s |-> s, v |-> raw % modulus]

\* Ret as it would be if no instruction cost more than two cycles
Ret_two_at_most(s, cycles) == [s |-> s, cycles |-> IF cycles > 2 THEN 2 ELSE cycles]

Ret(s, cycles) == [s |-> s, cycles |-> cycles]

---------------------------------------------------------------------------
(* CPU::new and CPU::reset. *)

\* the rom array CPU::new fills from the program: rom[i] = program[i]
\* (sequences count from 1)
RomOf(prog) ==
    [i \in {j \in 0 .. Len(prog) - 1 : prog[j + 1] # 0} |-> prog[i + 1]]

new(prog) ==
    [memory |-> MemNew(RomOf(prog)), interrupt_status |-> Enabled, event |-> None,
     flags |-> 0, pc |-> 0, sp |-> 0,
     a |-> 0, b |-> 0, c |-> 0, d |-> 0, e |-> 0, h |-> 0, l |-> 0,
     panicked |-> FALSE]

\* reset as it would be if it rebuilt the memory instead of clearing the RAM
reset_clears_memory(s) ==
    [s EXCEPT !.memory = [x \in {} |-> 0],
              !.interrupt_status = Enabled, !.event = None,
              !.flags = 0, !.pc = 0, !.sp = 0,
              !.a = 0, !.b = 0, !.c = 0, !.d = 0, !.e = 0, !.h = 0, !.l = 0]

\* reset as it would be without its line for sp
reset_keeps_sp(s) ==
    [s EXCEPT !.memory = MemResetRam(s.memory),
              !.interrupt_status = Enabled, !.event = None,
              !.flags = 0, !.pc = 0,
              !.a = 0, !.b = 0, !.c = 0, !.d = 0, !.e = 0, !.h = 0, !.l = 0]

reset(s) ==
    [s EXCEPT !.memory = MemResetRam(s.memory),
              !.interrupt_status = Enabled, !.event = None,
              !.flags = 0, !.pc = 0, !.sp = 0,
              !.a = 0, !.b = 0, !.c = 0, !.d = 0, !.e = 0, !.h = 0, !.l = 0]

---------------------------------------------------------------------------
(* Flags. *)

flag(s, f) == IF BitAnd(s.flags, f) # 0 THEN 1 ELSE 0

set_flag(s, f, value) ==
    IF value # 0 THEN [s EXCEPT !.flags = BitOr(s.flags, f)]
    ELSE [s EXCEPT !.flags = BitAnd(s.flags, 255 - f)]

\* set_flags as it would be if it built the whole FLAGS byte from the four
\* flags
set_flags_whole_byte(s, val, carry) ==
    LET s1 == set_flag([s EXCEPT !.flags = 0], CARRY_FLAG, carry)
        s2 == set_flag(s1, PARITY_FLAG, IF even_parity(val) THEN 1 ELSE 0)
        s3 == set_flag(s2, ZERO_FLAG, IF val = 0 THEN 1 ELSE 0)
    IN set_flag(s3, SIGN_FLAG, BitAnd(val, 128))

set_flags(s, val, carry) ==
    LET s1 == set_flag(s, CARRY_FLAG, carry)
        s2 == set_flag(s1, PARITY_FLAG, IF even_parity(val) THEN 1 ELSE 0)
        s3 == set_flag(s2, ZERO_FLAG, IF val = 0 THEN 1 ELSE 0)
    IN set_flag(s3, SIGN_FLAG, BitAnd(val, 128))

---------------------------------------------------------------------------
(* Fetching and the stack. *)

read_pc(s) ==
    IF s.panicked THEN [s |-> s, v |-> 0]
    ELSE LET val == MemRead(s.memory, s.pc)
             n == Checked(s, s.pc + 1, U16)
         IN IF n.s.panicked THEN [s |-> n.s, v |-> 0]
            ELSE [s |-> [s EXCEPT !.pc = n.v], v |-> val]

read_pc_u16(s) ==
    IF s.panicked THEN [s |-> s, v |-> 0]
    ELSE LET p1 == Checked(s, s.pc + 1, U16)
             val == concat_u16(MemRead(s.memory, p1.v), MemRead(s.memory, s.pc))
             p2 == Checked(p1.s, s.pc + 2, U16)
         IN IF p2.s.panicked THEN [s |-> p2.s, v |-> 0]
            ELSE [s |-> [s EXCEPT !.pc = p2.v], v |-> val]

stack_push(s, val) ==
    IF s.panicked THEN s
    ELSE LET n == Checked(s, s.sp - 1, U16)
         IN IF n.s.panicked THEN n.s
            ELSE [s EXCEPT !.sp = n.v, !.memory = MemWrite(s.memory, n.v, val)]

\* stack_push_u16 as it would be with the low byte pushed first
stack_push_u16_lo_first(s, val) == stack_push(stack_push(s, val % 256), val \div 256)

stack_push_u16(s, val) == stack_push(stack_push(s, val \div 256), val % 256)

stack_pop(s) ==
    IF s.panicked THEN [s |-> s, v |-> 0]
    ELSE LET val == MemRead(s.memory, s.sp)
             n == Checked(s, s.sp + 1, U16)
         IN IF n.s.panicked THEN [s |-> n.s, v |-> 0]
            ELSE [s |-> [s EXCEPT !.sp = n.v], v |-> val]

\* stack_pop_u16 as it would be if it took the first byte popped for the high one
stack_pop_u16_hi_first(s) ==
    LET hi == stack_pop(s)
        lo == stack_pop(hi.s)
    IN [s |-> lo.s, v |-> BitOr(hi.v * 256, lo.v)]

stack_pop_u16(s) ==
    LET lo == stack_pop(s)
        hi == stack_pop(lo.s)
    IN [s |-> hi.s, v |-> BitOr(hi.v * 256, lo.v)]

---------------------------------------------------------------------------
(* Registers, register pairs and the M operand.  An opcode names a         *)
(* register by a number: 0 B, 1 C, 2 D, 3 E, 4 H, 5 L, 6 M, 7 A; and a     *)
(* pair by a number: 0 (B,C), 1 (D,E), 2 (H,L), 3 (A,FLAGS).               *)

bc(s) == concat_u16(s.b, s.c)
bc_val(s) == MemRead(s.memory, bc(s))
\* the store through bc_val_mut as it would be if it were lost
bc_val_mut_lost(s, val) == s
bc_val_mut(s, val) == [s EXCEPT !.memory = MemWrite(s.memory, bc(s), val)]

de(s) == concat_u16(s.d, s.e)
de_val(s) == MemRead(s.memory, de(s))
de_val_mut(s, val) == [s EXCEPT !.memory = MemWrite(s.memory, de(s), val)]

m(s) == concat_u16(s.h, s.l)
m_val(s) == MemRead(s.memory, m(s))
m_val_mut(s, val) == [s EXCEPT !.memory = MemWrite(s.memory, m(s), val)]

Reg(s, r) ==
    CASE r = 0 -> s.b [] r = 1 -> s.c [] r = 2 -> s.d [] r = 3 -> s.e
      [] r = 4 -> s.h [] r = 5 -> s.l [] r = 6 -> m_val(s) [] r = 7 -> s.a

SetReg(s, r, val) ==
    CASE r = 0 -> [s EXCEPT !.b = val] [] r = 1 -> [s EXCEPT !.c = val]
      [] r = 2 -> [s EXCEPT !.d = val] [] r = 3 -> [s EXCEPT !.e = val]
      [] r = 4 -> [s EXCEPT !.h = val] [] r = 5 -> [s EXCEPT !.l = val]
      [] r = 6 -> m_val_mut(s, val)    [] r = 7 -> [s EXCEPT !.a = val]

PairHi(s, rp) ==
    CASE rp = 0 -> s.b [] rp = 1 -> s.d [] rp = 2 -> s.h [] rp = 3 -> s.a

PairLo(s, rp) ==
    CASE rp = 0 -> s.c [] rp = 1 -> s.e [] rp = 2 -> s.l [] rp = 3 -> s.flags

SetPairHi(s, rp, val) ==
    CASE rp = 0 -> [s EXCEPT !.b = val] [] rp = 1 -> [s EXCEPT !.d = val]
      [] rp = 2 -> [s EXCEPT !.h = val] [] rp = 3 -> [s EXCEPT !.a = val]

SetPairLo(s, rp, val) ==
    CASE rp = 0 -> [s EXCEPT !.c = val] [] rp = 1 -> [s EXCEPT !.e = val]
      [] rp = 2 -> [s EXCEPT !.l = val] [] rp = 3 -> [s EXCEPT !.flags = val]

\* the flag a conditional jump, call or return tests: 0xC_ ZERO, 0xD_ CARRY,
\* 0xE_ PARITY, 0xF_ SIGN
CondFlag(opcode) ==
    CASE opcode \div 16 = 12 -> ZERO_FLAG [] opcode \div 16 = 13 -> CARRY_FLAG
      [] opcode \div 16 = 14 -> PARITY_FLAG [] opcode \div 16 = 15 -> SIGN_FLAG

---------------------------------------------------------------------------
(* Jumps, calls and returns. *)

\* jmp_if as it would be if it left the operand unread when it does not jump
jmp_if_short(s, f) ==
    LET adr == read_pc_u16(s)
    IN IF adr.s.panicked THEN Ret(adr.s, 3)
       ELSE IF flag(adr.s, f) # 0 THEN Ret([adr.s EXCEPT !.pc = adr.v], 3)
       ELSE Ret(s, 3)

jmp_if(s, f) ==
    LET adr == read_pc_u16(s)
    IN IF adr.s.panicked THEN Ret(adr.s, 3)
       ELSE IF flag(adr.s, f) # 0 THEN Ret([adr.s EXCEPT !.pc = adr.v], 3)
       ELSE Ret(adr.s, 3)

jmp_if_not(s, f) ==
    LET adr == read_pc_u16(s)
    IN IF adr.s.panicked THEN Ret(adr.s, 3)
       ELSE IF flag(adr.s, f) = 0 THEN Ret([adr.s EXCEPT !.pc = adr.v], 3)
       ELSE Ret(adr.s, 3)

\* call as it would be if it cleared the carry flag
call_clears_carry(s, adr) ==
    LET p == stack_push_u16(s, s.pc)
    IN IF p.panicked THEN Ret(p, 5)
       ELSE Ret([p EXCEPT !.pc = adr, !.flags = BitAnd(p.flags, 254)], 5)

call(s, adr) ==
    LET p == stack_push_u16(s, s.pc)
    IN IF p.panicked THEN Ret(p, 5) ELSE Ret([p EXCEPT !.pc = adr], 5)

\* rst as it would be without the shift of the restart number
rst_unshifted(s, val) == call(s, val)

rst(s, val) == call(s, val * 8)

\* call_if as it would be if it cost the same whether or not it calls
call_if_flat(s, f) ==
    LET adr == read_pc_u16(s)
    IN IF adr.s.panicked THEN Ret(adr.s, 3)
       ELSE IF flag(adr.s, f) # 0 THEN call(adr.s, adr.v)
       ELSE Ret(adr.s, 5)

call_if(s, f) ==
    LET adr == read_pc_u16(s)
    IN IF adr.s.panicked THEN Ret(adr.s, 3)
       ELSE IF flag(adr.s, f) # 0 THEN call(adr.s, adr.v)
       ELSE Ret(adr.s, 3)

call_if_not(s, f) ==
    LET adr == read_pc_u16(s)
    IN IF adr.s.panicked THEN Ret(adr.s, 3)
       ELSE IF flag(adr.s, f) = 0 THEN call(adr.s, adr.v)
       ELSE Ret(adr.s, 3)

\* the ret! macro of step
ret(s) ==
    LET p == stack_pop_u16(s)
    IN IF p.s.panicked THEN Ret(p.s, 3) ELSE Ret([p.s EXCEPT !.pc = p.v], 3)

ret_if(s, f) == IF flag(s, f) # 0 THEN ret(s) ELSE Ret(s, 1)

ret_if_not(s, f) == IF flag(s, f) = 0 THEN ret(s) ELSE Ret(s, 1)

\* the push! and pop! macros of step
push(s, hi, lo) == Ret(stack_push(stack_push(s, hi), lo), 3)

\* pop! as it would be with the two bytes taken in the other order
pop_hi_first(s, rp) ==
    LET hi == stack_pop(s)
        s1 == IF hi.s.panicked THEN hi.s ELSE SetPairHi(hi.s, rp, hi.v)
        lo == stack_pop(s1)
        s2 == IF lo.s.panicked THEN lo.s ELSE SetPairLo(lo.s, rp, lo.v)
    IN Ret(s2, 3)

pop(s, rp) ==
    LET lo == stack_pop(s)
        s1 == IF lo.s.panicked THEN lo.s ELSE SetPairLo(lo.s, rp, lo.v)
        hi == stack_pop(s1)
        s2 == IF hi.s.panicked THEN hi.s ELSE SetPairHi(hi.s, rp, hi.v)
    IN Ret(s2, 3)

\* mvi! as it would be with the two-cycle default for every destination
mvi_default_cycles(s, r, cycles) ==
    LET val == read_pc(s)
    IN IF val.s.panicked THEN Ret(val.s, 2)
       ELSE Ret(SetReg(val.s, r, val.v), 2)

\* the mvi! macro of step
mvi(s, r, cycles) ==
    LET val == read_pc(s)
    IN IF val.s.panicked THEN Ret(val.s, cycles)
       ELSE Ret(SetReg(val.s, r, val.v), cycles)

\* the mov! macro of step
mov(s, from, to, cycles) == Ret(SetReg(s, to, Reg(s, from)), cycles)

---------------------------------------------------------------------------
(* Arithmetic and logic. *)

\* inr and dcr return the wrapped result (inr_val, dcr_val) and set the flags
inr_val(val) == (val + 1) % U8
\* inr as it would be if it set the carry from the overflow of the addition
inr_sets_carry(s, val) == set_flags(s, inr_val(val), IF val + 1 >= U8 THEN 1 ELSE 0)

inr(s, val) == set_flags(s, inr_val(val), flag(s, CARRY_FLAG))

dcr_val(val) == (val + U8 - 1) % U8
dcr(s, val) == set_flags(s, dcr_val(val), flag(s, CARRY_FLAG))

add_a(s, right) ==
    LET result == (s.a + right) % U8
        overflow == IF s.a + right >= U8 THEN 1 ELSE 0
    IN Ret([set_flags(s, result, overflow) EXCEPT !.a = result], 1)

sub_a(s, val) ==
    LET result == (s.a + U8 - val) % U8
        underflow == IF s.a < val THEN 1 ELSE 0
    IN Ret([set_flags(s, result, underflow) EXCEPT !.a = result], 1)

\* and_a as it would be if it kept the carry
and_a_keeps_carry(s, val) ==
    LET s1 == [s EXCEPT !.a = BitAnd(s.a, val)]
    IN Ret(set_flags(s1, s1.a, flag(s, CARRY_FLAG)), 1)

and_a(s, val) ==
    LET s1 == [s EXCEPT !.a = BitAnd(s.a, val)] IN Ret(set_flags(s1, s1.a, 0), 1)

xor_a(s, val) ==
    LET s1 == [s EXCEPT !.a = BitXor(s.a, val)] IN Ret(set_flags(s1, s1.a, 0), 1)

or_a(s, val) ==
    LET s1 == [s EXCEPT !.a = BitOr(s.a, val)] IN Ret(set_flags(s1, s1.a, 0), 1)

cmp_a(s, val) ==
    LET result == (s.a + U8 - val) % U8
        underflow == IF s.a < val THEN 1 ELSE 0
    IN Ret(set_flags(s, result, underflow), 1)

\* the eight operations of opcodes 0x80..0xBF and of the immediate forms, by
\* bits 3..5 of the opcode: ADD ADC SUB SBB ANA XRA ORA CMP.  ADC and SBB add
\* the carry flag to the operand first, with the + of the build.
alu(s, kind, operand) ==
    LET withc == Checked(s, operand + flag(s, CARRY_FLAG), U8)
    IN CASE kind = 0 -> add_a(s, operand)
         [] kind = 1 -> IF withc.s.panicked THEN Ret(withc.s, 1)
                        ELSE add_a(s, withc.v)
         [] kind = 2 -> sub_a(s, operand)
         [] kind = 3 -> IF withc.s.panicked THEN Ret(withc.s, 1)
                        ELSE sub_a(s, withc.v)
         [] kind = 4 -> and_a(s, operand)
         [] kind = 5 -> xor_a(s, operand)
         [] kind = 6 -> or_a(s, operand)
         [] kind = 7 -> cmp_a(s, operand)

\* inx as it would be without the carry into the high register
inx_low_only(s, rp) == Ret(SetPairLo(s, rp, (PairLo(s, rp) + 1) % U8), 1)

inx(s, rp) ==
    LET result_lo == (PairLo(s, rp) + 1) % U8
        carry == IF PairLo(s, rp) + 1 >= U8 THEN 1 ELSE 0
    IN Ret(SetPairHi(SetPairLo(s, rp, result_lo), rp, (PairHi(s, rp) + carry) % U8), 1)

dcx(s, rp) ==
    LET result_lo == (PairLo(s, rp) + U8 - 1) % U8
        carry == IF PairLo(s, rp) < 1 THEN 1 ELSE 0
    IN Ret(SetPairHi(SetPairLo(s, rp, result_lo), rp,
                     (PairHi(s, rp) + U8 - carry) % U8), 1)

dad(s, hi, lo) ==
    LET val == concat_u16(hi, lo)
        hl == concat_u16(s.h, s.l)
        result == (hl + val) % U16
        carry == IF hl + val >= U16 THEN 1 ELSE 0
        s1 == [s EXCEPT !.h = result \div 256, !.l = BitAnd(result, 255)]
    IN Ret(set_flag(s1, CARRY_FLAG, carry), 3)

daa(s) ==
    LET lowadj == Checked(s, s.a + 6, U8)
        s1 == IF BitAnd(s.a, 15) > 9
              THEN (IF lowadj.s.panicked THEN lowadj.s ELSE [s EXCEPT !.a = lowadj.v])
              ELSE s
        result == (s1.a + 96) % U8
        carry == IF s1.a + 96 >= U8 THEN 1 ELSE 0
    IN IF s1.panicked THEN Ret(s1, 1)
       ELSE IF BitAnd(s1.a, 240) > 144
            THEN Ret([set_flags(s1, s1.a, carry) EXCEPT !.a = result], 1)
       ELSE Ret(s1, 1)

---------------------------------------------------------------------------
(* CPU::step: the match on the opcode, section by section of the source.   *)

\* Misc/control instructions
\* HLT as it would be if it published nothing
op_hlt_silent(s) == Ret(s, 1)

op_hlt(s) == Ret([s EXCEPT !.event = Halt], 1)

\* OUT as it would be with the fields of PortWrite exchanged
op_out_swapped(s) ==
    LET port == read_pc(s)
    IN IF port.s.panicked THEN Ret(port.s, 3)
       ELSE Ret([port.s EXCEPT !.event = PortWrite(port.s.a, port.v)], 3)

op_out(s) ==
    LET port == read_pc(s)
    IN IF port.s.panicked THEN Ret(port.s, 3)
       ELSE Ret([port.s EXCEPT !.event = PortWrite(port.v, port.s.a)], 3)

op_in(s) ==
    LET port == read_pc(s)
    IN IF port.s.panicked THEN Ret(port.s, 3)
       ELSE Ret([port.s EXCEPT !.event = PortRead(port.v)], 3)

op_di(s) == Ret([s EXCEPT !.interrupt_status = Disabled], 1)

\* EI as it would be if it did not take effect in its own step
op_ei_deferred(s) == Ret(s, 1)

op_ei(s) == Ret([s EXCEPT !.interrupt_status = Enabled], 1)

ExecMisc(s, opcode) ==
    CASE opcode \in {0, 16, 32, 48, 8, 24, 40, 56} -> Ret(s, 1)              \* NOP
      [] opcode = 118 -> op_hlt(s)                                            \* HLT
      [] opcode = 211 -> op_out(s)                                            \* OUT d8
      [] opcode = 219 -> op_in(s)                                             \* IN d8
      [] opcode = 243 -> op_di(s)                                             \* DI
      [] opcode = 251 -> op_ei(s)                                             \* EI

MiscOps == {0, 16, 32, 48, 8, 24, 40, 56, 118, 211, 219, 243, 251}

\* Jumps/calls
ExecJump(s, opcode) ==
    CASE opcode \in {192, 208, 224, 240} -> ret_if_not(s, CondFlag(opcode))  \* RNZ RNC RPO RP
      [] opcode \in {194, 210, 226, 242} -> jmp_if_not(s, CondFlag(opcode))  \* JNZ JNC JPO JP
      [] opcode \in {195, 203} ->                                             \* JMP a16
            LET adr == read_pc_u16(s)
            IN IF adr.s.panicked THEN Ret(adr.s, 3)
               ELSE Ret([adr.s EXCEPT !.pc = adr.v], 3)
      [] opcode \in {196, 212, 228, 244} -> call_if_not(s, CondFlag(opcode)) \* CNZ CNC CPO CP
      [] opcode \in {199, 207, 215, 223, 231, 239, 247, 255} ->              \* RST n
            rst(s, (opcode - 199) \div 8)
      [] opcode \in {200, 216, 232, 248} -> ret_if(s, CondFlag(opcode))      \* RZ RC RPE RM
      [] opcode \in {201, 217} -> ret(s)                                      \* RET
      [] opcode = 233 -> Ret([s EXCEPT !.pc = concat_u16(s.h, s.l)], 1)       \* PCHL
      [] opcode \in {202, 218, 234, 250} -> jmp_if(s, CondFlag(opcode))      \* JZ JC JPE JM
      [] opcode \in {204, 220, 236, 252} -> call_if(s, CondFlag(opcode))     \* CZ CC CPE CM
      [] opcode \in {205, 221, 237, 253} ->                                   \* CALL a16
            LET adr == read_pc_u16(s)
            IN IF adr.s.panicked THEN Ret(adr.s, 5) ELSE call(adr.s, adr.v)

JumpOps ==
    {192, 208, 224, 240, 194, 210, 226, 242, 195, 203, 196, 212, 228, 244,
     199, 207, 215, 223, 231, 239, 247, 255, 200, 216, 232, 248, 201, 217, 233,
     202, 218, 234, 250, 204, 220, 236, 252, 205, 221, 237, 253}

\* 8-bit load/store/move instructions
ExecMove8(s, opcode) ==
    CASE opcode = 18 -> Ret(de_val_mut(s, s.a), 2)                            \* STAX D
      [] opcode = 2 -> Ret(bc_val_mut(s, s.a), 2)                             \* STAX B
      [] opcode = 50 ->                                                       \* STA a16
            LET adr == read_pc_u16(s)
            IN IF adr.s.panicked THEN Ret(adr.s, 4)
               ELSE Ret([adr.s EXCEPT !.memory = MemWrite(adr.s.memory, adr.v, adr.s.a)], 4)
      [] opcode \in {6, 14, 22, 30, 38, 46, 62} -> mvi(s, opcode \div 8, 2)   \* MVI r,d8
      [] opcode = 54 -> mvi(s, 6, 3)                                          \* MVI M,d8
      [] opcode = 10 -> Ret([s EXCEPT !.a = bc_val(s)], 2)                    \* LDAX B
      [] opcode = 26 -> Ret([s EXCEPT !.a = de_val(s)], 2)                    \* LDAX D
      [] opcode = 58 ->                                                       \* LDA a16
            LET adr == read_pc_u16(s)
            IN IF adr.s.panicked THEN Ret(adr.s, 4)
               ELSE Ret([adr.s EXCEPT !.a = MemRead(adr.s.memory, adr.v)], 4)
      [] opcode \in 64 .. 127 ->                                              \* MOV to,from
            LET to == (opcode - 64) \div 8
                from == opcode % 8
            IN mov(s, from, to, IF to = 6 \/ from = 6 THEN 2 ELSE 1)

Move8Ops == ({18, 2, 50, 6, 14, 22, 30, 38, 46, 62, 54, 10, 26, 58} \cup (64 .. 127)) \ {118}

\* 16-bit load/store/move instructions
ExecMove16(s, opcode) ==
    CASE opcode \in {1, 17, 33} ->                                            \* LXI rp,d16
            LET rp == opcode \div 16
                lo == read_pc(s)
                s1 == IF lo.s.panicked THEN lo.s ELSE SetPairLo(lo.s, rp, lo.v)
                hi == read_pc(s1)
                s2 == IF hi.s.panicked THEN hi.s ELSE SetPairHi(hi.s, rp, hi.v)
            IN Ret(s2, 3)
      [] opcode = 49 ->                                                       \* LXI SP,d16
            LET val == read_pc_u16(s)
            IN IF val.s.panicked THEN Ret(val.s, 3)
               ELSE Ret([val.s EXCEPT !.sp = val.v], 3)
      [] opcode = 34 ->                                                       \* SHLD
            LET adr == read_pc_u16(s)
                s1 == [adr.s EXCEPT !.memory = MemWrite(adr.s.memory, adr.v, adr.s.l)]
                adr1 == Checked(s1, adr.v + 1, U16)
            IN IF adr.s.panicked THEN Ret(adr.s, 5)
               ELSE IF adr1.s.panicked THEN Ret(adr1.s, 5)
               ELSE Ret([s1 EXCEPT !.memory = MemWrite(s1.memory, adr1.v, s1.h)], 5)
      [] opcode = 42 ->                                                       \* LHLD
            LET adr == read_pc_u16(s)
                s1 == [adr.s EXCEPT !.l = MemRead(adr.s.memory, adr.v)]
                adr1 == Checked(s1, adr.v + 1, U16)
            IN IF adr.s.panicked THEN Ret(adr.s, 5)
               ELSE IF adr1.s.panicked THEN Ret(adr1.s, 5)
               ELSE Ret([s1 EXCEPT !.h = MemRead(s1.memory, adr1.v)], 5)
      [] opcode \in {193, 209, 225, 241} -> pop(s, (opcode - 193) \div 16)    \* POP rp
      [] opcode \in {197, 213, 229, 245} ->                                   \* PUSH rp
            push(s, PairHi(s, (opcode - 197) \div 16), PairLo(s, (opcode - 197) \div 16))
      [] opcode = 227 ->                                                      \* XTHL
            LET sp1 == Checked(s, s.sp + 1, U16)
                s1 == [s EXCEPT !.h = MemRead(s.memory, sp1.v),
                                !.memory = MemWrite(s.memory, sp1.v, s.h)]
            IN IF sp1.s.panicked THEN Ret(sp1.s, 5)
               ELSE Ret([s1 EXCEPT !.l = MemRead(s1.memory, s1.sp),
                                   !.memory = MemWrite(s1.memory, s1.sp, s1.l)], 5)
      [] opcode = 249 -> Ret([s EXCEPT !.sp = m(s)], 1)                       \* SPHL
      [] opcode = 235 ->                                                      \* XCHG
            Ret([s EXCEPT !.h = s.d, !.d = s.h, !.l = s.e, !.e = s.l], 1)

Move16Ops == {1, 17, 33, 49, 34, 42, 193, 209, 225, 241, 197, 213, 229, 245, 227, 249, 235}

\* 8-bit arithmetic/logical instructions
ExecAlu8(s, opcode) ==
    CASE opcode \in {4, 12, 20, 28, 36, 44, 52, 60} ->                        \* INR r
            LET r == opcode \div 8
            IN Ret(SetReg(inr(s, Reg(s, r)), r, inr_val(Reg(s, r))), IF r = 6 THEN 3 ELSE 1)
      [] opcode \in {5, 13, 21, 29, 37, 45, 53, 61} ->                        \* DCR r
            LET r == opcode \div 8
            IN Ret(SetReg(dcr(s, Reg(s, r)), r, dcr_val(Reg(s, r))), IF r = 6 THEN 3 ELSE 1)
      [] opcode = 7 ->                                                        \* RLC
            Ret([set_flag(s, CARRY_FLAG, BitAnd(s.a, 128)) EXCEPT !.a = RotateLeft(s.a)], 1)
      [] opcode = 15 ->                                                       \* RRC
            Ret([set_flag(s, CARRY_FLAG, BitAnd(s.a, 1)) EXCEPT !.a = RotateRight(s.a)], 1)
      [] opcode = 23 ->                                                       \* RAL
            LET carry == BitAnd(s.a, 128)
                s1 == [s EXCEPT !.a = BitOr((s.a * 2) % U8, flag(s, CARRY_FLAG))]
            IN Ret(set_flag(s1, CARRY_FLAG, carry), 1)
      [] opcode = 31 ->                                                       \* RAR
            LET carry == BitAnd(s.a, 1)
                s1 == [s EXCEPT !.a = BitOr(s.a \div 2, flag(s, CARRY_FLAG) * 128)]
            IN Ret(set_flag(s1, CARRY_FLAG, carry), 1)
      [] opcode = 39 -> daa(s)                                                \* DAA
      [] opcode = 55 -> Ret(set_flag(s, CARRY_FLAG, 1), 1)                    \* STC
      [] opcode = 47 -> Ret([s EXCEPT !.a = 255 - s.a], 1)                    \* CMA
      [] opcode = 63 -> Ret([s EXCEPT !.flags = BitXor(s.flags, CARRY_FLAG)], 1) \* CMC
      [] opcode \in 128 .. 191 ->                                             \* ADD..CMP r
            LET r == opcode % 8
                res == alu(s, (opcode - 128) \div 8, Reg(s, r))
            IN IF r = 6 THEN Ret(res.s, 2) ELSE res
      [] opcode \in {198, 206, 214, 222, 230, 238, 246, 254} ->               \* ADI..CPI d8
            LET d8 == read_pc(s)
            IN IF d8.s.panicked THEN Ret(d8.s, 2)
               ELSE Ret(alu(d8.s, (opcode - 198) \div 8, d8.v).s, 2)

Alu8Ops ==
    {4, 12, 20, 28, 36, 44, 52, 60, 5, 13, 21, 29, 37, 45, 53, 61, 7, 15, 23, 31,
     39, 55, 47, 63, 198, 206, 214, 222, 230, 238, 246, 254} \cup (128 .. 191)

\* 16-bit arithmetic/logical instructions
ExecAlu16(s, opcode) ==
    CASE opcode \in {3, 19, 35} -> inx(s, opcode \div 16)                     \* INX rp
      [] opcode = 51 -> Ret([s EXCEPT !.sp = (s.sp + 1) % U16], 1)            \* INX SP
      [] opcode \in {9, 25, 41} ->                                            \* DAD rp
            dad(s, PairHi(s, opcode \div 16), PairLo(s, opcode \div 16))
      [] opcode = 57 -> dad(s, s.sp \div 256, s.sp % 256)                     \* DAD SP
      [] opcode \in {11, 27, 43} -> dcx(s, opcode \div 16)                    \* DCX rp
      [] opcode = 59 -> Ret([s EXCEPT !.sp = (s.sp + U16 - 1) % U16], 1)      \* DCX SP

Alu16Ops == {3, 19, 35, 51, 9, 25, 41, 57, 11, 27, 43, 59}

\* the match of step: every opcode is in exactly one section
Exec(s, opcode) ==
    CASE opcode \in MiscOps -> ExecMisc(s, opcode)
      [] opcode \in JumpOps -> ExecJump(s, opcode)
      [] opcode \in Move8Ops -> ExecMove8(s, opcode)
      [] opcode \in Move16Ops -> ExecMove16(s, opcode)
      [] opcode \in Alu8Ops -> ExecAlu8(s, opcode)
      [] opcode \in Alu16Ops -> ExecAlu16(s, opcode)

\* step as it would be if a CPU whose slot holds Halt stayed halted
step_halted(s) ==
    LET opcode == read_pc(s)
        res == Exec(opcode.s, opcode.v)
    IN IF s.event = Halt THEN [s |-> s, cycles |-> 1, opcode |-> 118]
       ELSE IF opcode.s.panicked THEN [s |-> opcode.s, cycles |-> 0, opcode |-> opcode.v]
       ELSE [s |-> res.s, cycles |-> res.cycles, opcode |-> opcode.v]

step(s) ==
    LET opcode == read_pc(s)
        res == Exec(opcode.s, opcode.v)
    IN IF opcode.s.panicked THEN [s |-> opcode.s, cycles |-> 0, opcode |-> opcode.v]
       ELSE [s |-> res.s, cycles |-> res.cycles, opcode |-> opcode.v]

\* interrupt as it would be if delivering it cleared the latch
interrupt_acknowledged(s, interrupt_num) ==
    IF s.interrupt_status = Enabled
    THEN [rst(s, interrupt_num).s EXCEPT !.interrupt_status = Disabled]
    ELSE s

interrupt(s, interrupt_num) ==
    IF s.interrupt_status = Enabled THEN rst(s, interrupt_num).s ELSE s

\* CPU::event: what it returns, and the CPU it leaves
event_ret(s) == s.event
\* event as it would be if it copied the slot instead of replacing it
event_kept(s) == s

event_take(s) == [s EXCEPT !.event = None]

port_in(s, val) == [s EXCEPT !.a = val]

---------------------------------------------------------------------------
(* The programs the runs start from, and the host's inputs. *)

\* INR M; STAX B; MVI M,55h; MOV M,B; STA 0002h; SHLD 0005h: stores into ROM
ProgRomStores == <<52, 2, 54, 85, 112, 50, 2, 0, 34, 5, 0>>
\* LXI SP,0010h; MVI B,77h; PUSH B; POP D; RST 7: a stack in ROM
ProgRomStack == <<49, 16, 0, 6, 119, 197, 209, 255>>
\* PUSH B; LXI SP,FFFFh; POP B; JMP FFFFh: SP and PC at the ends of the
\* address space
ProgStackWrap == <<197, 49, 255, 255, 193, 195, 255, 255>>
\* MVI A,C3h; STA FFFEh; JMP FFFEh: a JMP whose operand lies at FFFFh, 0000h
ProgWrapOperand == <<62, 195, 50, 254, 255, 195, 254, 255>>
\* OUT 3; HLT; IN 1; DI; EI; HLT
ProgEvents == <<211, 3, 118, 219, 1, 243, 251, 118>>
\* DI; LXI SP,4000h; MVI A,99h; ADD A; PUSH PSW; HLT
ProgDirty == <<243, 49, 0, 64, 62, 153, 135, 245, 118>>

\* LXI SP,4000h; JMP 1000h
ProgInterrupt == <<49, 0, 64, 195, 0, 16>>

Programs ==
    {ProgRomStores, ProgRomStack, ProgStackWrap, ProgWrapOperand, ProgEvents, ProgDirty,
     ProgInterrupt}

\* LXI SP,0009h; POP rp; LXI SP,4000h; PUSH rp; POP rq; then the two bytes
\* 45h, AAh the first POP loads: rp = AA45h before the PUSH
PushPopProg(rp, rq) ==
    <<49, 9, 0, 193 + 16 * rp, 49, 0, 64, 197 + 16 * rp, 193 + 16 * rq, 69, 170>>

PushPopPrograms ==
    {PushPopProg(rp, rq) : rp \in 0 .. 3, rq \in 0 .. 3} \cup {ProgRomStack, ProgStackWrap}

\* the restart numbers the host injects
IntNums == 0 .. 7
\* the bytes the host answers a port read with
PortBytes == {170, 255}

---------------------------------------------------------------------------
(* The calls of the host: one action per public method of CPU. *)

SetCPU(s) ==
    /\ memory' = s.memory
    /\ interrupt_status' = s.interrupt_status
    /\ event' = s.event
    /\ flags' = s.flags
    /\ pc' = s.pc
    /\ sp' = s.sp
    /\ a' = s.a
    /\ b' = s.b
    /\ c' = s.c
    /\ d' = s.d
    /\ e' = s.e
    /\ h' = s.h
    /\ l' = s.l
    /\ panicked' = s.panicked

Call(op, arg, opcode, cycles, ev) ==
    [op |-> op, arg |-> arg, opcode |-> opcode, cycles |-> cycles, ev |-> ev]

\* the host's locals before its main loop: not paused, frame 0, about to
\* poll its input; cycles, isr_done are those of the frame under way, steps
\* and ints count the steps and list the interrupts of that frame
HostNew ==
    [at |-> "poll", paused |-> FALSE, frame |-> 0, cycles |-> 0, isr_done |-> FALSE,
     steps |-> 0, ints |-> <<>>]

InitWith(progs) ==
    /\ program \in progs
    /\ overflow_checks \in BOOLEAN
    /\ memory = new(program).memory
    /\ interrupt_status = new(program).interrupt_status
    /\ event = new(program).event
    /\ flags = new(program).flags
    /\ pc = new(program).pc
    /\ sp = new(program).sp
    /\ a = new(program).a
    /\ b = new(program).b
    /\ c = new(program).c
    /\ d = new(program).d
    /\ e = new(program).e
    /\ h = new(program).h
    /\ l = new(program).l
    /\ panicked = FALSE
    /\ last = Call("new", 0, 0, 0, None)
    /\ pre = new(program)
    /\ prev = Call("new", 0, 0, 0, None)
    /\ nsteps = 0
    /\ ncalls = 0
    /\ host = HostNew
    /\ pending = <<>>

Init == InitWith(Programs)

Step ==
    /\ ~panicked
    /\ nsteps < MaxSteps
    /\ LET r == step(CPU)
       IN /\ SetCPU(r.s)
          /\ last' = Call("step", 0, r.opcode, IF r.s.panicked THEN 0 ELSE r.cycles, None)
    /\ pre' = CPU
    /\ prev' = last
    /\ nsteps' = nsteps + 1
    /\ UNCHANGED <<program, overflow_checks, ncalls, host, pending>>

Interrupt ==
    /\ ~panicked
    /\ ncalls < MaxCalls
    /\ \E n \in IntNums :
          /\ SetCPU(interrupt(CPU, n))
          /\ last' = Call("interrupt", n, 0, 0, None)
    /\ pre' = CPU
    /\ prev' = last
    /\ ncalls' = ncalls + 1
    /\ UNCHANGED <<program, overflow_checks, nsteps, host, pending>>

PortIn ==
    /\ ~panicked
    /\ ncalls < MaxCalls
    /\ \E val \in PortBytes :
          /\ SetCPU(port_in(CPU, val))
          /\ last' = Call("port_in", val, 0, 0, None)
    /\ pre' = CPU
    /\ prev' = last
    /\ ncalls' = ncalls + 1
    /\ UNCHANGED <<program, overflow_checks, nsteps, host, pending>>

TakeEvent ==
    /\ ~panicked
    /\ ncalls < MaxCalls
    /\ SetCPU(event_take(CPU))
    /\ last' = Call("event", 0, 0, 0, event_ret(CPU))
    /\ pre' = CPU
    /\ prev' = last
    /\ ncalls' = ncalls + 1
    /\ UNCHANGED <<program, overflow_checks, nsteps, host, pending>>

Reset ==
    /\ ~panicked
    /\ ncalls < MaxCalls
    /\ SetCPU(reset(CPU))
    /\ last' = Call("reset", 0, 0, 0, None)
    /\ pre' = CPU
    /\ prev' = last
    /\ ncalls' = ncalls + 1
    /\ UNCHANGED <<program, overflow_checks, nsteps, host, pending>>

Next == Step \/ Interrupt \/ PortIn \/ TakeEvent \/ Reset

Spec == Init /\ [][Next]_vars

\* the runs that start from the PUSH/POP programs
InitPushPop == InitWith(PushPopPrograms)

SpecPushPop == InitPushPop /\ [][Next]_vars

---------------------------------------------------------------------------
(* What the claims are stated with. *)

\* byte i of the image as CPU::new installs it: zero past the program's end
ImageByte(adr) == IF adr < Len(program) THEN program[adr + 1] ELSE 0

\* the addresses at which either memory may hold a non-zero byte
Touched(m1, m2) == DOMAIN m1 \cup DOMAIN m2

\* the CPU apart from its memory, PC and SP
Regs(s) == <<s.a, s.b, s.c, s.d, s.e, s.h, s.l, s.flags, s.interrupt_status, s.event>>

InRam(adr) == adr >= RomSize

\* the last call was a step that returned, having executed opcode op
Stepped(op) == last.op = "step" /\ ~panicked /\ last.opcode = op

\* the byte that follows the opcode of the instruction the last step executed
Operand8 == MemRead(pre.memory, (pre.pc + 1) % U16)
Operand16 ==
    concat_u16(MemRead(pre.memory, (pre.pc + 2) % U16), MemRead(pre.memory, (pre.pc + 1) % U16))

---------------------------------------------------------------------------
(* C1: after any sequence of step, interrupt, port_in, event and reset     *)
(* calls every byte at 0x0000..0x1FFF equals the byte of the image         *)
(* CPU::new installed.  Bytes outside the program and outside the          *)
(* memory's non-zero bytes are zero on both sides.                         *)
C1_RomEqualsImage ==
    \A adr \in {x \in DOMAIN memory : x < RomSize} \cup (0 .. Len(program) - 1) :
        MemRead(memory, adr) = ImageByte(adr)

\* STA has just stored a non-zero A, unlike the byte there, at a ROM address
C1_Witness ==
    /\ Stepped(50)
    /\ Operand16 < RomSize
    /\ pre.a # 0
    /\ pre.a # MemRead(pre.memory, Operand16)

(* C2: all PC and SP arithmetic wraps modulo 2^16 and no step or interrupt *)
(* aborts: a push with SP = 0 leaves SP = 0xFFFF/0xFFFE, a pop at 0xFFFF   *)
(* leaves SP = 0, a fetch at PC = 0xFFFF continues at 0.                   *)
C2_WrapsNeverAborts ==
    /\ ~panicked
    /\ pc \in 0 .. U16 - 1
    /\ sp \in 0 .. U16 - 1
    /\ (last.op = "interrupt" /\ pre.interrupt_status = Enabled /\ pre.sp = 0
            => sp = 65534 /\ MemRead(memory, 65535) = pre.pc \div 256)
    /\ (last.op = "step" /\ last.opcode = 0 /\ pre.pc = 65535 => pc = 0)

(* C3: step is total: for every opcode and every state it returns a        *)
(* success value carrying a cycle count between 1 and 5.                   *)
C3_StepTotal == last.op = "step" => ~panicked /\ last.cycles \in 1 .. 5

(* C4: with the latch Enabled, interrupt(n) has exactly the effect of      *)
(* RST n executed at the current PC: the high byte of PC is stored at      *)
(* SP-1, the low byte at SP-2, SP := SP-2, PC := 8*n, and nothing else     *)
(* changes.                                                                *)
C4_InterruptIsRst ==
    last.op = "interrupt" /\ pre.interrupt_status = Enabled /\ ~panicked =>
        LET hi_adr == (pre.sp + U16 - 1) % U16
            lo_adr == (pre.sp + U16 - 2) % U16
        IN /\ pc = 8 * last.arg
           /\ sp = lo_adr
           /\ Regs(CPU) = Regs(pre)
           /\ \A adr \in Touched(memory, pre.memory) \cup {hi_adr, lo_adr} :
                 MemRead(memory, adr) =
                    IF adr = lo_adr /\ InRam(adr) THEN pre.pc % 256
                    ELSE IF adr = hi_adr /\ InRam(adr) THEN pre.pc \div 256
                    ELSE MemRead(pre.memory, adr)
           /\ CPU = Exec(pre, 199 + 8 * last.arg).s

\* interrupt(2) delivered at PC = 0x1000, SP = 0x4000
C4_Witness ==
    /\ last.op = "interrupt" /\ last.arg = 2
    /\ pre.interrupt_status = Enabled
    /\ pre.pc = 4096 /\ pre.sp = 16384
    /\ pc = 16 /\ sp = 16382
    /\ MemRead(memory, 16382) = 0 /\ MemRead(memory, 16383) = 16

(* C5: with the latch Disabled, interrupt(n) leaves the whole CPU and      *)
(* memory unchanged; interrupt(n) never changes the latch; with the latch  *)
(* Enabled two consecutive interrupt calls are both delivered: SP goes     *)
(* down by 4 and PC ends at the second vector.                             *)
C5_InterruptAndLatch ==
    [][/\ (last'.op = "interrupt" /\ pre'.interrupt_status = Disabled => CPU' = pre')
       /\ (last'.op = "interrupt" => interrupt_status' = pre'.interrupt_status)
       /\ (last.op = "interrupt" /\ last'.op = "interrupt" /\ ~panicked'
           /\ pre.interrupt_status = Enabled
              => /\ sp' = (pre.sp + U16 - 4) % U16
                 /\ pc' = 8 * last'.arg
                 /\ interrupt_status' = Enabled)]_vars

\* two interrupts in a row, both delivered
C5_Witness ==
    /\ prev.op = "interrupt" /\ last.op = "interrupt"
    /\ ~panicked
    /\ interrupt_status = Enabled
    /\ sp = (pre.sp + U16 - 2) % U16
    /\ pre.pc = 8 * prev.arg
    /\ pc = 8 * last.arg

(* C6: the latch is Enabled at construction; a step executing DI sets it   *)
(* Disabled, a step executing EI or a reset sets it Enabled, every other   *)
(* call leaves it as it was; the change is immediate: an interrupt right   *)
(* after the EI step is delivered, one right after the DI step is ignored. *)
C6_LatchChanges ==
    /\ (last.op = "new" => interrupt_status = Enabled)
    /\ [][/\ (~panicked' =>
                interrupt_status' =
                   IF last'.op = "step" /\ last'.opcode = 243 THEN Disabled
                   ELSE IF last'.op = "step" /\ last'.opcode = 251 THEN Enabled
                   ELSE IF last'.op = "reset" THEN Enabled
                   ELSE interrupt_status)
          /\ (Stepped(251) /\ last'.op = "interrupt" /\ ~panicked'
                => pc' = 8 * last'.arg /\ sp' = (sp + U16 - 2) % U16)
          /\ (Stepped(243) /\ last'.op = "interrupt" => CPU' = CPU)]_vars

\* an interrupt delivered right after the EI step that enabled the latch again
C6_Witness ==
    /\ prev.op = "step" /\ prev.opcode = 251
    /\ last.op = "interrupt" /\ ~panicked
    /\ pc = 8 * last.arg /\ pc # pre.pc
    /\ sp = (pre.sp + U16 - 2) % U16

(* C7: event() returns the slot's content and leaves the slot empty, so a  *)
(* second event() with no event-producing step in between returns None;    *)
(* an event-producing instruction overwrites an event not yet taken, so    *)
(* the next event() returns the later event only.                          *)
C7_EventSlot ==
    /\ (last.op = "event" =>
            /\ last.ev = pre.event
            /\ event = None
            /\ CPU = [pre EXCEPT !.event = None])
    /\ (last.op = "event" /\ prev.op = "event" => last.ev = None)
    /\ (Stepped(118) => event = Halt)
    /\ (Stepped(211) => event = PortWrite(Operand8, pre.a))
    /\ (Stepped(219) => event = PortRead(Operand8))

\* an event-producing step has overwritten an event that was never taken
C7_Witness ==
    /\ last.op = "step" /\ ~panicked
    /\ last.opcode \in {118, 211, 219}
    /\ pre.event # None
    /\ event # pre.event

(* C8: exactly HLT, OUT and IN write the event slot: HLT stores Halt with  *)
(* PC advanced by 1; OUT d8 stores PortWrite(d8, A) and IN d8 stores       *)
(* PortRead(d8), both with PC advanced by 2; none of them changes a        *)
(* register, FLAGS, SP or memory; every other instruction, interrupt and   *)
(* port_in leave the slot as it was; port_in(b) sets A = b and changes     *)
(* nothing else.                                                           *)
C8_EventWriters ==
    /\ (Stepped(118) =>
            CPU = [pre EXCEPT !.event = Halt, !.pc = (pre.pc + 1) % U16])
    /\ (Stepped(211) =>
            CPU = [pre EXCEPT !.event = PortWrite(Operand8, pre.a),
                              !.pc = (pre.pc + 2) % U16])
    /\ (Stepped(219) =>
            CPU = [pre EXCEPT !.event = PortRead(Operand8), !.pc = (pre.pc + 2) % U16])
    /\ (last.op = "step" /\ last.opcode \notin {118, 211, 219} => event = pre.event)
    /\ (last.op \in {"interrupt", "port_in"} => event = pre.event)
    /\ (last.op = "port_in" => CPU = [pre EXCEPT !.a = last.arg])

\* OUT 3 with A = 0xAA has stored PortWrite(3, 0xAA)
C8_Witness ==
    /\ Stepped(211)
    /\ pre.a = 170
    /\ event = <<"PortWrite", 3, 170>>
    /\ pc = pre.pc + 2

(* C9: reset() yields the state new(program) produced: RAM all zero, the   *)
(* registers, FLAGS, PC and SP zero, the latch Enabled, the event slot     *)
(* empty, ROM equal to the image; reset is idempotent.                     *)
C9_ResetIsNew ==
    /\ (last.op = "reset" =>
            /\ \A adr \in DOMAIN memory : ~InRam(adr)
            /\ \A adr \in {x \in DOMAIN memory : x < RomSize} \cup (0 .. Len(program) - 1) :
                  MemRead(memory, adr) = ImageByte(adr)
            /\ <<a, b, c, d, e, h, l, flags, pc, sp>> = <<0, 0, 0, 0, 0, 0, 0, 0, 0, 0>>
            /\ interrupt_status = Enabled
            /\ event = None
            /\ CPU = new(program))
    /\ (last.op = "reset" /\ prev.op = "reset" => CPU = pre)

\* a reset of a CPU with RAM written, registers and flags set, the latch
\* Disabled and an event pending
C9_Witness ==
    /\ last.op = "reset"
    /\ \E adr \in DOMAIN pre.memory : InRam(adr)
    /\ pre.a # 0 /\ pre.flags # 0 /\ pre.sp # 0 /\ pre.pc # 0
    /\ pre.interrupt_status = Disabled
    /\ pre.event # None

PushOps == {197, 213, 229, 245}
PopOps == {193, 209, 225, 241}

\* a PUSH rp that returned, followed at once by a POP rq that returned; pre
\* is the CPU before the PUSH
PushThenPop ==
    /\ last.op = "step" /\ last.opcode \in PushOps /\ ~panicked
    /\ last'.op = "step" /\ last'.opcode \in PopOps /\ ~panicked'

\* rq after the POP holds what rp held before the PUSH, and SP is back
PopRestores ==
    LET rp == (last.opcode - 197) \div 16
        rq == (last'.opcode - 193) \div 16
    IN /\ PairHi(CPU', rq) = PairHi(pre, rp)
       /\ PairLo(CPU', rq) = PairLo(pre, rp)
       /\ sp' = pre.sp
       /\ (rq = rp => PairHi(CPU', rp) = PairHi(pre, rp) /\ PairLo(CPU', rp) = PairLo(pre, rp))

(* C10, as stated: in every state, for rp, rq in {BC, DE, HL, PSW}, PUSH   *)
(* rp followed at once by POP rq leaves rq's high and low registers equal  *)
(* to rp's before the PUSH (all eight FLAGS bits for PSW) and SP as        *)
(* before the PUSH.                                                        *)
C10_PushPopEveryState == [][PushThenPop => PopRestores]_vars

(* C10, amended: the same, when the two bytes below SP, at SP-1 and SP-2   *)
(* modulo 2^16, are RAM addresses and both steps return; and both steps    *)
(* do return when SP is in 0x2002..0xFFFD and the opcode is not fetched    *)
(* at PC = 0xFFFF.                                                         *)
C10_PushPopInRam ==
    [][/\ (PushThenPop /\ InRam((pre.sp + U16 - 1) % U16)
                       /\ InRam((pre.sp + U16 - 2) % U16) => PopRestores)
       /\ (last'.op = "step" /\ last'.opcode \in PushOps \cup PopOps
           /\ pre'.sp \in RomSize + 2 .. U16 - 3 /\ pre'.pc < U16 - 1
              => ~panicked')]_vars

\* A = 0xAA, FLAGS = 0x45; PUSH PSW; POP B has left B = 0xAA, C = 0x45
C10_Witness ==
    /\ prev.op = "step" /\ prev.opcode = 245
    /\ Stepped(193)
    /\ a = 170 /\ flags = 69
    /\ b = 170 /\ c = 69
    /\ sp = 16384 /\ InRam(sp - 2)

---------------------------------------------------------------------------
(* Runs of step alone, with no call of the host between two instructions:  *)
(* the programs below set registers and flags up and then execute the      *)
(* instruction under study.                                                *)

CallOps == {205, 221, 237, 253}
RetOps == {201, 217}

\* LXI SP,4000h; CALL 0007h; HLT; RET
ProgCall(callop, retop) == <<49, 0, 64, callop, 7, 0, 118, retop>>
\* CALL 0005h; HLT; NOP; RET: a CALL at 0000h with SP = 0000h
ProgCallWrap == <<205, 5, 0, 118, 0, 201>>
\* LXI SP,0010h; CALL 0007h; HLT; RET: the return address is pushed into ROM
ProgCallRom == <<49, 16, 0, 205, 7, 0, 118, 201>>

CallPrograms ==
    {ProgCall(callop, retop) : callop \in CallOps, retop \in RetOps}
        \cup {ProgCallWrap, ProgCallRom}

(* C11: CALL a16 at address p with SP = s and both stack bytes in RAM      *)
(* leaves PC = a16, SP = s-2, mem[s-2] = low byte of p+3 and mem[s-1] =    *)
(* high byte of p+3, and changes nothing else; a RET executed next leaves  *)
(* PC = p+3 and SP = s.                                                    *)
C11_CallThenRet ==
    /\ [](last.op = "step" /\ last.opcode \in CallOps /\ ~panicked
          /\ InRam((pre.sp + U16 - 1) % U16) /\ InRam((pre.sp + U16 - 2) % U16)
            => LET hi_adr == (pre.sp + U16 - 1) % U16
                   lo_adr == (pre.sp + U16 - 2) % U16
                   after == (pre.pc + 3) % U16
               IN /\ pc = Operand16
                  /\ sp = lo_adr
                  /\ MemRead(memory, lo_adr) = after % 256
                  /\ MemRead(memory, hi_adr) = after \div 256
                  /\ Regs(CPU) = Regs(pre)
                  /\ \A adr \in Touched(memory, pre.memory) \ {hi_adr, lo_adr} :
                        MemRead(memory, adr) = MemRead(pre.memory, adr)
                  /\ last.cycles = 5)
    /\ [][last.op = "step" /\ last.opcode \in CallOps /\ ~panicked
          /\ InRam((pre.sp + U16 - 1) % U16) /\ InRam((pre.sp + U16 - 2) % U16)
          /\ last'.op = "step" /\ last'.opcode \in RetOps /\ ~panicked'
            => /\ pc' = (pre.pc + 3) % U16
               /\ sp' = pre.sp
               /\ last'.cycles = 3]_vars

\* CALL 0007h at 0003h with SP = 4000h, then the RET at 0007h: back at 0006h
C11_Witness ==
    /\ prev.op = "step" /\ prev.opcode \in CallOps
    /\ Stepped(201)
    /\ pre.pc = 7 /\ pre.sp = 16382
    /\ MemRead(memory, 16382) = 6 /\ MemRead(memory, 16383) = 0
    /\ pc = 6 /\ sp = 16384

---------------------------------------------------------------------------
\* the instructions that leave a given combination of flags: none (all
\* clear); XRA A (Z, P); STC (CY); MVI A,80h; ORA A (S); MVI A,00h; CPI 00h
\* (Z, P)
FlagSetups == {<<>>, <<175>>, <<55>>, <<62, 128, 183>>, <<62, 0, 254, 0>>}

\* the condition an opcode of the conditional groups tests, numbered by its
\* bits 3..5: 0 NZ, 1 Z, 2 NC, 3 C, 4 PO, 5 PE, 6 P, 7 M
CondRow(opcode) == (opcode \div 8) % 8
CondHolds(opcode, fl) ==
    LET bit == CASE CondRow(opcode) \div 2 = 0 -> 64    \* ZERO
                 [] CondRow(opcode) \div 2 = 1 -> 1     \* CARRY
                 [] CondRow(opcode) \div 2 = 2 -> 4     \* PARITY
                 [] CondRow(opcode) \div 2 = 3 -> 128   \* SIGN
        set == (fl \div bit) % 2 = 1
    IN IF CondRow(opcode) % 2 = 1 THEN set ELSE ~set

CondJumpOps == {194 + 8 * row : row \in 0 .. 7}

\* the flags set up, then Jcc 1234h
ProgJump(setup, op) == setup \o <<op, 52, 18>>

JumpPrograms == {ProgJump(setup, op) : setup \in FlagSetups, op \in CondJumpOps}

(* C12: a conditional jump at address p reads its little-endian operand    *)
(* a16 and returns 3 cycles whether or not it jumps; afterwards PC = a16   *)
(* if its condition holds and PC = p+3 otherwise; no register, flag, SP or *)
(* memory byte changes.                                                    *)
C12_CondJump ==
    last.op = "step" /\ last.opcode \in CondJumpOps /\ ~panicked =>
        /\ last.cycles = 3
        /\ pc = IF CondHolds(last.opcode, pre.flags) THEN Operand16
                ELSE (pre.pc + 3) % U16
        /\ CPU = [pre EXCEPT !.pc = pc]

\* MVI A,00h; CPI 00h; JZ 1234h has jumped
C12_Witness ==
    /\ Stepped(202)
    /\ prev.opcode = 254
    /\ pre.flags = 68
    /\ pc = 4660

---------------------------------------------------------------------------
CondCallOps == {196 + 8 * row : row \in 0 .. 7}
CondRetOps == {192 + 8 * row : row \in 0 .. 7}

\* the flags set up, then LXI SP,4000h; Ccc 1234h
ProgCondCall(setup, op) == setup \o <<49, 0, 64, op, 52, 18>>
\* the flags set up, then LXI SP,4000h; CALL sub; HLT; sub: Rcc; HLT
ProgCondRet(setup, op) == setup \o <<49, 0, 64, 205, Len(setup) + 7, 0, 118, op, 118>>

CondCallPrograms ==
    {ProgCondCall(setup, op) : setup \in FlagSetups, op \in CondCallOps}
        \cup {ProgCondRet(setup, op) : setup \in FlagSetups, op \in CondRetOps}

\* the CPU after the instruction at pre's PC, were its opcode byte op
AsIf(op) == Exec(read_pc(pre).s, op).s

(* C13: a conditional call at address p returns 5 cycles and behaves as    *)
(* CALL a16 when its condition holds, and otherwise returns 3 cycles with  *)
(* PC = p+3 and nothing else changed; a conditional return at p returns 3  *)
(* cycles and behaves as RET when its condition holds, and otherwise       *)
(* returns 1 cycle with PC = p+1 and nothing else changed.                 *)
C13_CondCallRet ==
    /\ (last.op = "step" /\ last.opcode \in CondCallOps /\ ~panicked =>
            IF CondHolds(last.opcode, pre.flags)
            THEN /\ last.cycles = 5
                 /\ CPU = AsIf(205)
                 /\ pc = Operand16
                 /\ sp = (pre.sp + U16 - 2) % U16
            ELSE /\ last.cycles = 3
                 /\ CPU = [pre EXCEPT !.pc = (pre.pc + 3) % U16])
    /\ (last.op = "step" /\ last.opcode \in CondRetOps /\ ~panicked =>
            IF CondHolds(last.opcode, pre.flags)
            THEN /\ last.cycles = 3
                 /\ CPU = AsIf(201)
                 /\ pc = concat_u16(MemRead(pre.memory, (pre.sp + 1) % U16),
                                    MemRead(pre.memory, pre.sp))
                 /\ sp = (pre.sp + 2) % U16
            ELSE /\ last.cycles = 1
                 /\ CPU = [pre EXCEPT !.pc = (pre.pc + 1) % U16])

\* XRA A; LXI SP,4000h; CZ 1234h has called: the return address 0007h is on
\* the stack
C13_Witness ==
    /\ Stepped(204)
    /\ pre.flags = 68 /\ pre.sp = 16384 /\ pre.pc = 4
    /\ pc = 4660 /\ sp = 16382
    /\ MemRead(memory, 16382) = 7 /\ MemRead(memory, 16383) = 0
    /\ last.cycles = 5

---------------------------------------------------------------------------
\* what precedes the instruction under study, and the two bytes after its
\* opcode: LXI SP,4000h ... 34h 12h, or LXI SP,4000h; LXI H,20FFh ... FFh FFh
OperandSetups == {<<<<49, 0, 64>>, <<52, 18>>>>, <<<<49, 0, 64, 33, 255, 32>>, <<255, 255>>>>}

ProgOpcode(setup, operands, op) == setup \o operands[1] \o <<op>> \o operands[2]

OpcodePrograms ==
    {ProgOpcode(setup, operands, op) :
        setup \in FlagSetups, operands \in OperandSetups, op \in 0 .. 255}

\* the cycles of an opcode, taken telling whether the condition of a
\* conditional call or return holds.  The opcodes of the groups named in
\* C14 carry the number C14 gives; LXI, PCHL, DAA, INR M, DCR M and the
\* conditional calls and returns carry the number that makes the count a
\* function of the opcode.
CyclesOf(op, taken) ==
    CASE op \in {0, 8, 16, 24, 32, 40, 48, 56} -> 1                          \* NOP
      [] op = 118 -> 1                                                       \* HLT
      [] op \in (64 .. 127) \ {118} ->                                       \* MOV
            IF op % 8 = 6 \/ (op - 64) \div 8 = 6 THEN 2 ELSE 1
      [] op \in 128 .. 191 -> IF op % 8 = 6 THEN 2 ELSE 1                    \* ALU r / M
      [] op \in {198, 206, 214, 222, 230, 238, 246, 254} -> 2                \* ALU d8
      [] op \in {4, 12, 20, 28, 36, 44, 60, 5, 13, 21, 29, 37, 45, 61} -> 1  \* INR r, DCR r
      [] op \in {52, 53} -> 3                                                \* INR M, DCR M
      [] op \in {3, 19, 35, 51, 11, 27, 43, 59} -> 1                         \* INX, DCX
      [] op \in {7, 15, 23, 31} -> 1                                         \* rotates
      [] op \in {47, 63, 55} -> 1                                            \* CMA CMC STC
      [] op = 39 -> 1                                                        \* DAA
      [] op \in {243, 251} -> 1                                              \* DI EI
      [] op \in {249, 235} -> 1                                              \* SPHL XCHG
      [] op = 233 -> 1                                                       \* PCHL
      [] op \in {2, 18, 10, 26} -> 2                                         \* STAX LDAX
      [] op \in {6, 14, 22, 30, 38, 46, 62} -> 2                             \* MVI r
      [] op = 54 -> 3                                                        \* MVI M
      [] op \in {1, 17, 33, 49} -> 3                                         \* LXI
      [] op \in {9, 25, 41, 57} -> 3                                         \* DAD
      [] op \in {195, 203} -> 3                                              \* JMP
      [] op \in RetOps -> 3                                                  \* RET
      [] op \in CondJumpOps -> 3                                             \* Jcc
      [] op \in {211, 219} -> 3                                              \* OUT IN
      [] op \in PushOps \cup PopOps -> 3                                     \* PUSH POP
      [] op \in {50, 58} -> 4                                                \* STA LDA
      [] op \in {34, 42, 227} -> 5                                           \* SHLD LHLD XTHL
      [] op \in CallOps -> 5                                                 \* CALL
      [] op \in {199 + 8 * n : n \in 0 .. 7} -> 5                            \* RST
      [] op \in CondCallOps -> IF taken THEN 5 ELSE 3                        \* Ccc
      [] op \in CondRetOps -> IF taken THEN 3 ELSE 1                         \* Rcc

(* C14: the cycle count step returns depends only on the opcode (and, for  *)
(* a conditional call or return, on the tested flag), never on operand     *)
(* values: 1 for register MOV, register ALU, INR/DCR r, INX/DCX, rotates,  *)
(* CMA/CMC/STC, EI/DI, NOP, HLT, SPHL, XCHG; 2 for MOV with M, LDAX/STAX,  *)
(* ALU with M, ALU immediate, MVI r; 3 for MVI M, DAD, JMP, RET,           *)
(* conditional jumps, OUT, IN, PUSH, POP; 4 for STA/LDA; 5 for SHLD/LHLD,  *)
(* XTHL, CALL and RST.                                                     *)
C14_CyclesByOpcode ==
    last.op = "step" /\ ~panicked =>
        last.cycles = CyclesOf(last.opcode, CondHolds(last.opcode, pre.flags))

\* STA 1234h executed with A = 80h and the flags S set: 4 cycles
C14_Witness ==
    /\ Stepped(50)
    /\ Operand16 = 4660
    /\ pre.a = 128 /\ pre.flags = 128
    /\ last.cycles = 4

---------------------------------------------------------------------------
\* the bytes the arithmetic programs load: the ends of the range, the ends
\* of a nibble and of the sign
AluBytes == {0, 1, 15, 127, 128, 254, 255}

\* NOP, or STC to enter with the carry set
CarrySetups == {0, 55}

\* MVI A,a; MVI B,r; NOP or STC; then a register form (operand B or A)
ProgAluReg(av, rv, carry, op) == <<62, av, 6, rv, carry, op>>
\* MVI A,a; NOP or STC; then an immediate form with operand r
ProgAluImm(av, rv, carry, op) == <<62, av, carry, op, rv>>

AdcOps == (136 .. 143) \cup {206}
SbbOps == (152 .. 159) \cup {222}

CarryPrograms ==
    {ProgAluReg(av, rv, carry, op) :
        av \in AluBytes, rv \in AluBytes, carry \in CarrySetups, op \in {136, 143, 152, 159}}
    \cup {ProgAluImm(av, rv, carry, op) :
        av \in AluBytes, rv \in AluBytes, carry \in CarrySetups, op \in {206, 222}}

\* the operand of the 8-bit arithmetic/logic instruction the last step
\* executed: the register or M its bits 0..2 name, or the immediate byte
AluOperand ==
    IF last.opcode \in 128 .. 191 THEN Reg(pre, last.opcode % 8) ELSE Operand8

Carry(fl) == fl % 2

(* C15: for every A, operand r and carry CY, ADC r / ACI leave             *)
(* A = (A + r + CY) mod 256 with carry set iff A + r + CY > 255, and       *)
(* SBB r / SBI leave A = (A - r - CY) mod 256 with carry set iff           *)
(* A < r + CY.                                                             *)
C15_NineBitCarry ==
    /\ (last.op = "step" /\ last.opcode \in AdcOps =>
            LET sum == pre.a + AluOperand + Carry(pre.flags)
            IN /\ ~panicked
               /\ a = sum % U8
               /\ Carry(flags) = IF sum > 255 THEN 1 ELSE 0)
    /\ (last.op = "step" /\ last.opcode \in SbbOps =>
            LET sub == AluOperand + Carry(pre.flags)
            IN /\ ~panicked
               /\ a = (pre.a + 2 * U8 - sub) % U8
               /\ Carry(flags) = IF pre.a < sub THEN 1 ELSE 0)

---------------------------------------------------------------------------
\* MVI A,a; NOP or STC; DAA
ProgDaa(av, carry) == <<62, av, carry, 39>>

DaaPrograms == {ProgDaa(av, carry) : av \in 0 .. 255, carry \in CarrySetups}

\* Z, S and P describe the byte val: Z iff it is 0, S its bit 7, P iff it has
\* an even number of 1 bits
FlagsDescribe(fl, val) ==
    /\ (fl \div 64) % 2 = (IF val = 0 THEN 1 ELSE 0)
    /\ (fl \div 128) % 2 = val \div 128
    /\ (fl \div 4) % 2 = (IF PopCount(val) % 2 = 0 THEN 1 ELSE 0)

(* C16: DAA, for every A: if the low nibble of A exceeds 9, A becomes      *)
(* (A + 6) mod 256 without changing carry; then if the high nibble of the  *)
(* resulting A exceeds 9, A becomes (A + 0x60) mod 256 and carry is set    *)
(* from that addition; afterwards Z, S and P are the zero test, bit 7 and  *)
(* even parity of the final A.                                             *)
C16_DaaAdjust ==
    last.op = "step" /\ last.opcode = 39 =>
        LET a1 == IF pre.a % 16 > 9 THEN (pre.a + 6) % U8 ELSE pre.a
            high == a1 \div 16 > 9
            a2 == IF high THEN (a1 + 96) % U8 ELSE a1
        IN /\ ~panicked
           /\ a = a2
           /\ Carry(flags) = IF high THEN (IF a1 + 96 > 255 THEN 1 ELSE 0)
                             ELSE Carry(pre.flags)
           /\ FlagsDescribe(flags, a)

---------------------------------------------------------------------------
\* ADD SUB ANA XRA ORA CMP with operand B, INR/DCR of B and of A
AluRegOps == {128, 144, 160, 168, 176, 184, 4, 5, 60, 61}
\* ADI SUI ANI XRI ORI CPI
AluImmOps == {198, 214, 230, 238, 246, 254}
\* ADD SUB ANA XRA ORA CMP with operand M, INR M, DCR M
AluMemOps == {134, 150, 166, 174, 182, 190, 52, 53}

\* LXI H,2000h; MVI M,r; MVI A,a; NOP or STC; then an M form
ProgAluMem(av, rv, carry, op) == <<33, 0, 32, 54, rv, 62, av, carry, op>>

AluPrograms ==
    {ProgAluReg(av, rv, carry, op) :
        av \in AluBytes, rv \in AluBytes, carry \in CarrySetups, op \in AluRegOps}
    \cup {ProgAluImm(av, rv, carry, op) :
        av \in AluBytes, rv \in AluBytes, carry \in CarrySetups, op \in AluImmOps}
    \cup {ProgAluMem(av, rv, carry, op) :
        av \in {15, 255}, rv \in AluBytes, carry \in CarrySetups, op \in AluMemOps}

InrOps == {4, 12, 20, 28, 36, 44, 52, 60}
DcrOps == {5, 13, 21, 29, 37, 45, 53, 61}
CmpOps == (184 .. 191) \cup {254}
\* ADD ADC SUB SBB ANA XRA ORA and their immediate forms: the result is in A
AccOps == (128 .. 183) \cup {198, 206, 214, 222, 230, 238, 246}

\* the result byte of the arithmetic/logic instruction the last step executed
ResultByte ==
    CASE last.opcode \in InrOps -> (Reg(pre, last.opcode \div 8) + 1) % U8
      [] last.opcode \in DcrOps -> (Reg(pre, last.opcode \div 8) + U8 - 1) % U8
      [] last.opcode \in CmpOps -> (pre.a + U8 - AluOperand) % U8
      [] last.opcode \in AccOps \cup {39} -> a

(* C17: after every flag-writing arithmetic/logic instruction (ADD, ADC,   *)
(* SUB, SBB, ANA, XRA, ORA, CMP, their immediate forms, INR, DCR, DAA) Z   *)
(* is set iff the result byte is 0, S is its bit 7 and P is set iff it has *)
(* an even number of 1 bits; for CMP/CPI the result is (A - operand) mod   *)
(* 256, carry is set iff A < operand, and A is unchanged.                  *)
C17_FlagsDescribeResult ==
    /\ (last.op = "step" /\ ~panicked
        /\ last.opcode \in InrOps \cup DcrOps \cup CmpOps \cup AccOps \cup {39}
            => FlagsDescribe(flags, ResultByte))
    /\ (last.op = "step" /\ ~panicked /\ last.opcode \in CmpOps
            => /\ Carry(flags) = (IF pre.a < AluOperand THEN 1 ELSE 0)
               /\ a = pre.a)

---------------------------------------------------------------------------
AnaOps == (160 .. 167) \cup {230}
XraOps == (168 .. 175) \cup {238}
OraOps == (176 .. 183) \cup {246}

(* C18: ANA, XRA, ORA (register and M forms) and ANI, XRI, ORI leave the   *)
(* carry flag clear whatever it was and whatever the operands, and leave A *)
(* equal to the bitwise AND / XOR / OR of the old A and the operand.       *)
C18_LogicClearsCarry ==
    last.op = "step" /\ ~panicked /\ last.opcode \in AnaOps \cup XraOps \cup OraOps =>
        /\ Carry(flags) = 0
        /\ a = CASE last.opcode \in AnaOps -> BitAnd(pre.a, AluOperand)
                 [] last.opcode \in XraOps -> BitXor(pre.a, AluOperand)
                 [] last.opcode \in OraOps -> BitOr(pre.a, AluOperand)

\* ANA B entered with the carry set, A = FFh, B = 0Fh
C18_Witness ==
    /\ Stepped(160)
    /\ Carry(pre.flags) = 1 /\ pre.a = 255 /\ pre.b = 15
    /\ a = 15 /\ Carry(flags) = 0

(* C19: INR and DCR of any register or of M leave the carry flag as it was *)
(* and set Z, S, P from the wrapped 8-bit result: INR of FFh yields 00h    *)
(* with Z=1, P=1, S=0, DCR of 00h yields FFh with Z=0, S=1, P=1.           *)
C19_InrDcrKeepCarry ==
    last.op = "step" /\ ~panicked /\ last.opcode \in InrOps \cup DcrOps =>
        LET r == last.opcode \div 8
            old == Reg(pre, r)
        IN /\ Carry(flags) = Carry(pre.flags)
           /\ FlagsDescribe(flags, ResultByte)
           /\ (r # 6 \/ InRam(m(pre)) => Reg(CPU, r) = ResultByte)
           /\ (last.opcode \in InrOps /\ old = 255 =>
                  ResultByte = 0 /\ flags % 2 = pre.flags % 2
                  /\ (flags \div 64) % 2 = 1 /\ (flags \div 4) % 2 = 1 /\ flags \div 128 = 0)
           /\ (last.opcode \in DcrOps /\ old = 0 =>
                  ResultByte = 255 /\ (flags \div 64) % 2 = 0
                  /\ (flags \div 4) % 2 = 1 /\ flags \div 128 = 1)
           /\ CPU = SetReg([pre EXCEPT !.pc = (pre.pc + 1) % U16, !.flags = flags],
                           r, ResultByte)

\* INR B entered with the carry set and B = FFh: B = 00h, Z, P and CY set
C19_Witness ==
    /\ Stepped(4)
    /\ pre.b = 255 /\ Carry(pre.flags) = 1
    /\ b = 0 /\ flags = 69

---------------------------------------------------------------------------
\* the 16-bit values the programs load, low byte then high byte: 0000h,
\* 0001h, 00FFh, FFFFh
PairBytes == {<<0, 0>>, <<1, 0>>, <<255, 0>>, <<255, 255>>}

\* the flags set up; LXI H,hl; LXI rp,val for the pair op works on; then op
\* (INX, DAD or DCX, the pair in bits 4..5 of the opcode)
ProgAlu16(setup, hl, val, op) ==
    setup \o <<33, hl[1], hl[2], 1 + 16 * (op \div 16), val[1], val[2], op>>

Alu16Programs ==
    {ProgAlu16(setup, hl, val, op) :
        setup \in FlagSetups, hl \in PairBytes, val \in PairBytes, op \in Alu16Ops}

InxOps == {3, 19, 35, 51}
DcxOps == {11, 27, 43, 59}
DadOps == {9, 25, 41, 57}

\* the 16-bit value of the pair numbered rp, 3 being SP
PairVal(s, rp) == IF rp = 3 THEN s.sp ELSE PairHi(s, rp) * 256 + PairLo(s, rp)

\* s with the pair numbered rp holding val
WithPair(s, rp, val) ==
    IF rp = 3 THEN [s EXCEPT !.sp = val]
    ELSE SetPairHi(SetPairLo(s, rp, val % 256), rp, val \div 256)

(* C20: the 16-bit arithmetic instructions never change Z, S or P: INX and *)
(* DCX of BC, DE, HL or SP add and subtract 1 modulo 2^16 and change no    *)
(* flag bit; DAD rp sets HL to (HL + rp) mod 2^16, sets carry iff          *)
(* HL + rp > FFFFh and changes no other flag bit.  Nothing else changes    *)
(* but PC.                                                                 *)
C20_Alu16 ==
    LET rp == last.opcode \div 16
        next == [pre EXCEPT !.pc = (pre.pc + 1) % U16]
        sum == PairVal(pre, 2) + PairVal(pre, rp)
    IN /\ (last.op = "step" /\ ~panicked /\ last.opcode \in InxOps =>
              CPU = WithPair(next, rp, (PairVal(pre, rp) + 1) % U16) /\ flags = pre.flags)
       /\ (last.op = "step" /\ ~panicked /\ last.opcode \in DcxOps =>
              CPU = WithPair(next, rp, (PairVal(pre, rp) + U16 - 1) % U16)
              /\ flags = pre.flags)
       /\ (last.op = "step" /\ ~panicked /\ last.opcode \in DadOps =>
              /\ PairVal(CPU, 2) = sum % U16
              /\ Carry(flags) = (IF sum > 65535 THEN 1 ELSE 0)
              /\ flags \div 2 = pre.flags \div 2
              /\ CPU = [WithPair(next, 2, sum % U16) EXCEPT !.flags = flags])

\* DAD B with HL = FFFFh, BC = 0001h and Z, P set: HL = 0000h, carry set,
\* Z and P as they were
C20_Witness ==
    /\ Stepped(9)
    /\ PairVal(pre, 2) = 65535 /\ PairVal(pre, 0) = 1 /\ pre.flags = 68
    /\ h = 0 /\ l = 0 /\ flags = 69

---------------------------------------------------------------------------
\* RLC RRC RAL RAR
RotateOps == {7, 15, 23, 31}

\* MVI A,a; NOP or STC; two rotates
ProgRotate(av, carry, op1, op2) == <<62, av, carry, op1, op2>>

RotatePrograms ==
    {ProgRotate(av, carry, op1, op2) :
        av \in AluBytes, carry \in CarrySetups, op1 \in RotateOps, op2 \in RotateOps}

(* C21: the rotates change only A and the carry flag: RLC rotates A left   *)
(* with carry := old bit 7, RRC rotates right with carry := old bit 0, RAL *)
(* sets new bit 0 := old carry and carry := old bit 7, RAR sets new bit 7  *)
(* := old carry and carry := old bit 0; RAL followed by RAR restores A and *)
(* carry.                                                                  *)
C21_Rotates ==
    /\ [](last.op = "step" /\ ~panicked /\ last.opcode \in RotateOps =>
            LET bit7 == pre.a \div 128
                bit0 == pre.a % 2
                cy == Carry(pre.flags)
            IN /\ a = CASE last.opcode = 7 -> ((pre.a * 2) % U8) + bit7
                        [] last.opcode = 15 -> (pre.a \div 2) + 128 * bit0
                        [] last.opcode = 23 -> ((pre.a * 2) % U8) + cy
                        [] last.opcode = 31 -> (pre.a \div 2) + 128 * cy
               /\ Carry(flags) = (IF last.opcode \in {7, 23} THEN bit7 ELSE bit0)
               /\ flags \div 2 = pre.flags \div 2
               /\ CPU = [pre EXCEPT !.pc = (pre.pc + 1) % U16, !.a = a, !.flags = flags])
    /\ [][last.op = "step" /\ last.opcode = 23 /\ ~panicked
          /\ last'.op = "step" /\ last'.opcode = 31 /\ ~panicked'
            => a' = pre.a /\ flags' = pre.flags]_vars

\* MVI A,80h; NOP; RAL; RAL: after the first RAL A = 00h with carry set,
\* after the second A = 01h with carry clear
C21_Witness ==
    /\ program = <<62, 128, 0, 23, 23>>
    /\ prev.opcode = 23 /\ Stepped(23)
    /\ pre.a = 0 /\ Carry(pre.flags) = 1
    /\ a = 1 /\ Carry(flags) = 0

---------------------------------------------------------------------------
\* the addresses the store/load programs use, low byte then high byte:
\* 2000h, 4000h, FFFEh, FFFFh in RAM; 0010h, 1FFFh in ROM
StoreAddrs == {<<0, 32>>, <<0, 64>>, <<254, 255>>, <<255, 255>>, <<16, 0>>, <<255, 31>>}

\* LXI H,AA55h; SHLD a; LHLD a
ProgShldLhld(adr) == <<33, 85, 170, 34, adr[1], adr[2], 42, adr[1], adr[2]>>
\* LXI rp,a; MVI A,99h; STAX rp; LDAX rp (rp 0 for B, 1 for D)
ProgStaxLdax(rp, adr) == <<1 + 16 * rp, adr[1], adr[2], 62, 153, 2 + 16 * rp, 10 + 16 * rp>>

StorePrograms ==
    {ProgShldLhld(adr) : adr \in StoreAddrs}
        \cup {ProgStaxLdax(rp, adr) : rp \in {0, 1}, adr \in StoreAddrs}

\* SHLD a that returned, followed at once by LHLD a that returned; pre is the
\* CPU before the SHLD
ShldThenLhld ==
    /\ Stepped(34)
    /\ last'.op = "step" /\ last'.opcode = 42 /\ ~panicked'
    /\ Operand16' = Operand16

\* STAX rp that returned, followed at once by LDAX rp that returned
StaxThenLdax(rp) ==
    /\ Stepped(2 + 16 * rp)
    /\ last'.op = "step" /\ last'.opcode = 10 + 16 * rp /\ ~panicked'

(* C23, as stated: for every RAM address a in 2000h..FFFFh, SHLD a         *)
(* followed at once by LHLD a leaves H and L unchanged; STAX B followed by *)
(* LDAX B (likewise STAX D; LDAX D) leaves A unchanged whenever the pair   *)
(* holds a RAM address.                                                    *)
C23_RoundTripEveryRam ==
    [][/\ (ShldThenLhld /\ InRam(Operand16) => h' = pre.h /\ l' = pre.l)
       /\ (StaxThenLdax(0) /\ InRam(bc(pre)) => a' = pre.a)
       /\ (StaxThenLdax(1) /\ InRam(de(pre)) => a' = pre.a)]_vars

(* C23, amended: the same for SHLD a; LHLD a with a in 2000h..FFFEh, so    *)
(* that a+1 is a RAM address too; with a in that range and the             *)
(* instruction not fetched across FFFFh both steps do return.              *)
C23_RoundTripBothBytesInRam ==
    [][/\ (ShldThenLhld /\ InRam(Operand16) /\ Operand16 < U16 - 1
              => h' = pre.h /\ l' = pre.l)
       /\ (StaxThenLdax(0) /\ InRam(bc(pre)) => a' = pre.a)
       /\ (StaxThenLdax(1) /\ InRam(de(pre)) => a' = pre.a)
       /\ (last'.op = "step" /\ last'.opcode \in {34, 42} /\ pre'.pc < U16 - 3
           /\ concat_u16(MemRead(pre'.memory, pre'.pc + 2),
                         MemRead(pre'.memory, pre'.pc + 1)) < U16 - 1
              => ~panicked')]_vars

\* LXI H,AA55h; SHLD FFFEh; LHLD FFFEh: the two bytes are in RAM and HL is
\* back
C23_Witness ==
    /\ prev.opcode = 34 /\ Stepped(42)
    /\ Operand16 = 65534
    /\ MemRead(memory, 65534) = 85 /\ MemRead(memory, 65535) = 170
    /\ h = 170 /\ l = 85

---------------------------------------------------------------------------
RstOps == {199 + 8 * n : n \in 0 .. 7}

\* JMP, Jcc, CALL, Ccc, RET, Rcc, RST and PCHL
TransferOps ==
    {195, 203, 233} \cup CondJumpOps \cup CallOps \cup CondCallOps \cup RetOps
        \cup CondRetOps \cup RstOps

\* LXI SP,0010h; POP B; POP D; POP PSW; LXI SP,4000h; op 34h 12h; then, at
\* 0010h, the bytes the POPs load: BC = 1122h, DE = 3344h, FLAGS = fl,
\* A = 99h
ProgTransfer(fl, op) ==
    <<49, 16, 0, 193, 209, 241, 49, 0, 64, op, 52, 18, 0, 0, 0, 0, 34, 17, 68, 51, fl, 153>>

TransferPrograms == {ProgTransfer(fl, op) : fl \in {0, 255}, op \in TransferOps}

TakenCall ==
    \/ last.opcode \in CallOps \cup RstOps
    \/ last.opcode \in CondCallOps /\ CondHolds(last.opcode, pre.flags)

TakenRet ==
    \/ last.opcode \in RetOps
    \/ last.opcode \in CondRetOps /\ CondHolds(last.opcode, pre.flags)

(* C24: JMP, conditional jumps, CALL, conditional calls, RET, conditional  *)
(* returns, RST and PCHL leave A, B, C, D, E, H, L and all eight FLAGS     *)
(* bits unchanged; of these only a taken CALL / conditional call / RST     *)
(* writes memory (the two return-address bytes) and only taken calls and   *)
(* returns change SP.                                                      *)
C24_TransferFrame ==
    last.op = "step" /\ ~panicked /\ last.opcode \in TransferOps =>
        /\ Regs(CPU) = Regs(pre)
        /\ sp = IF TakenCall THEN (pre.sp + U16 - 2) % U16
                ELSE IF TakenRet THEN (pre.sp + 2) % U16
                ELSE pre.sp
        /\ IF TakenCall
           THEN \A adr \in Touched(memory, pre.memory) \ {sp, (sp + 1) % U16} :
                    MemRead(memory, adr) = MemRead(pre.memory, adr)
           ELSE memory = pre.memory

\* CZ 1234h taken with BC = 1122h, DE = 3344h, A = 99h, FLAGS = FFh: the
\* return address is written, the registers and flags are as before
C24_Witness ==
    /\ Stepped(204)
    /\ pre.b = 17 /\ pre.c = 34 /\ pre.d = 51 /\ pre.e = 68 /\ pre.a = 153
    /\ pre.flags = 255
    /\ memory # pre.memory
    /\ sp = 16382 /\ pc = 4660

---------------------------------------------------------------------------
\* MVI A,07h; MVI B,05h; ADD B; HLT
ProgSum == <<62, 7, 6, 5, 128, 118>>

(* C25: running 3E 07 06 05 80 76 from construction takes four steps       *)
(* returning 2, 2, 1, 1 cycles and ends with A = 0Ch, B = 05h, Z=0, S=0,   *)
(* P=1, C=0, PC = 0006h and the event slot holding Halt, the slot having   *)
(* been empty after each of the first three steps.                         *)
C25_SumProgram ==
    program = ProgSum /\ last.op = "step" =>
        /\ ~panicked
        /\ (nsteps = 1 => last.cycles = 2 /\ a = 7 /\ pc = 2 /\ event = None)
        /\ (nsteps = 2 => last.cycles = 2 /\ a = 7 /\ b = 5 /\ pc = 4 /\ event = None)
        /\ (nsteps = 3 => last.cycles = 1 /\ a = 12 /\ b = 5 /\ pc = 5 /\ event = None)
        /\ (nsteps = 4 =>
                /\ last.cycles = 1 /\ last.opcode = 118
                /\ a = 12 /\ b = 5 /\ pc = 6
                /\ (flags \div 64) % 2 = 0 /\ flags \div 128 = 0
                /\ (flags \div 4) % 2 = 1 /\ flags % 2 = 0
                /\ event = Halt)

\* the fourth step of the program has published Halt
C25_Witness ==
    /\ program = ProgSum /\ nsteps = 4
    /\ Stepped(118)
    /\ a = 12 /\ b = 5 /\ flags = 4 /\ pc = 6
    /\ event = Halt

---------------------------------------------------------------------------
\* the address in HL before the last call
PreM == concat_u16(pre.h, pre.l)

(* C26 as stated: INR M and DCR M return 2 machine cycles, the cost of     *)
(* the other instructions with a memory operand.                           *)
C26_InrDcrMemTwoCycles ==
    Stepped(52) \/ Stepped(53) => last.cycles = 2

(* C26, amended: INR M and DCR M return 3 machine cycles, whatever the     *)
(* byte at HL; the byte is read, incremented or decremented modulo 256     *)
(* and written back (the write is discarded when HL is in ROM).            *)
C26_InrDcrMemThreeCycles ==
    Stepped(52) \/ Stepped(53) =>
        /\ last.cycles = 3
        /\ MemRead(memory, PreM) =
              IF ~InRam(PreM) THEN MemRead(pre.memory, PreM)
              ELSE IF last.opcode = 52 THEN (MemRead(pre.memory, PreM) + 1) % U8
              ELSE (MemRead(pre.memory, PreM) + U8 - 1) % U8

\* DCR M with HL = 20FFh holding 00h: the byte becomes FFh, 3 cycles
C26_Witness ==
    /\ Stepped(53)
    /\ PreM = 8447 /\ MemRead(pre.memory, 8447) = 0
    /\ MemRead(memory, 8447) = 255
    /\ last.cycles = 3

---------------------------------------------------------------------------
\* a CPU record with its event slot emptied
NoEvent(s) == [s EXCEPT !.event = None]

(* C29: the CPU has no halted state.  HLT changes only PC (+1) and the     *)
(* event slot; the step after HLT fetches at the following address and     *)
(* does what it would do had the HLT been a NOP; an interrupt injected     *)
(* after HLT with the latch Enabled is delivered as usual.                 *)
C29_NoHaltedState ==
    /\ [](Stepped(118) =>
            CPU = [pre EXCEPT !.pc = (pre.pc + 1) % U16, !.event = Halt])
    /\ [][Stepped(118) /\ last'.op = "step" =>
            LET t == step([CPU EXCEPT !.event = pre.event])
            IN /\ pre'.pc = (pre.pc + 1) % U16
               /\ last'.opcode = MemRead(memory, pc)
               /\ last'.opcode = t.opcode
               /\ panicked' = t.s.panicked
               /\ (~panicked' =>
                     /\ last'.cycles = t.cycles
                     /\ NoEvent(CPU') = NoEvent(t.s)
                     /\ event' \in {t.s.event, Halt})]_vars
    /\ [][Stepped(118) /\ last'.op = "interrupt" /\ interrupt_status = Enabled
            /\ ~panicked' =>
            /\ pc' = 8 * last'.arg
            /\ sp' = (sp + U16 - 2) % U16
            /\ (InRam((sp + U16 - 1) % U16) =>
                  MemRead(memory', (sp + U16 - 1) % U16) = pc \div U8)
            /\ (InRam(sp') => MemRead(memory', sp') = pc % U8)]_vars

\* OUT 3; HLT; IN 1: the step after HLT has executed IN 1
C29_Witness ==
    /\ program = ProgEvents
    /\ Stepped(219) /\ prev.op = "step" /\ prev.opcode = 118
    /\ pre.event = Halt /\ pre.pc = 3
    /\ event = PortRead(1) /\ pc = 5

---------------------------------------------------------------------------
RunPrograms ==
    CallPrograms \cup JumpPrograms \cup CondCallPrograms \cup OpcodePrograms
        \cup CarryPrograms \cup DaaPrograms \cup AluPrograms \cup Alu16Programs
        \cup RotatePrograms \cup StorePrograms \cup TransferPrograms
        \cup {ProgSum}

InitRun == InitWith(RunPrograms)

\* the runs of step alone
SpecRun == InitRun /\ [][Step]_vars

---------------------------------------------------------------------------
(* Runs in which the host makes at most one call besides step: every       *)
(* opcode is executed with the unused FLAGS bits set, and every call of    *)
(* the host is made on such a state.                                       *)

\* LXI SP,000Bh; POP PSW; LXI SP,4000h; op 34h 12h; NOP; then the bytes POP
\* PSW loads: FLAGS = fl, A = 99h
ProgUnusedBits(fl, op) == <<49, 11, 0, 241, 49, 0, 64, op, 52, 18, 0, fl, 153>>

UnusedBitsPrograms == {ProgUnusedBits(fl, op) : fl \in {255, 58}, op \in 0 .. 255}

InitUnusedBits == InitWith(UnusedBitsPrograms)

NextOneCall ==
    \/ Step
    \/ (ncalls = 0 /\ Interrupt)
    \/ (ncalls = 0 /\ PortIn)
    \/ (ncalls = 0 /\ TakeEvent)
    \/ (ncalls = 0 /\ Reset)

SpecUnusedBits == InitUnusedBits /\ [][NextOneCall]_vars

\* bits 1, 3, 4 and 5 of a FLAGS byte
Unused(fl) == BitAnd(fl, 58)

(* C22: the unused FLAGS bits 1, 3, 4 and 5 are changed by no operation    *)
(* except POP PSW, which loads all eight bits from the stack, and reset,   *)
(* which clears them: every other instruction, and interrupt, port_in and  *)
(* event, leave those four bits as last written; they are 0 at             *)
(* construction.                                                           *)
C22_UnusedFlagBits ==
    /\ (last.op = "new" => flags = 0)
    /\ (last.op = "step" /\ ~panicked /\ last.opcode # 241
            => Unused(flags) = Unused(pre.flags))
    /\ (last.op \in {"interrupt", "port_in", "event"} /\ ~panicked
            => Unused(flags) = Unused(pre.flags))
    /\ (last.op = "reset" => flags = 0)
    /\ (Stepped(241) => flags = MemRead(pre.memory, pre.sp))

\* ADD B executed with FLAGS = FFh, A = 99h, B = 00h: S and P set, Z and CY
\* clear, the four unused bits still set
C22_Witness ==
    /\ Stepped(128)
    /\ pre.flags = 255 /\ pre.a = 153 /\ pre.b = 0
    /\ flags = 190

---------------------------------------------------------------------------
(* The host's main loop: one frame of stepping, with its two interrupts. *)

CYCLES_PER_FRAME == 33333

\* NOPs only; JMP 0000h; HLT then NOPs; PUSH B with SP = 0;
\* LXI SP,4000h; JMP 0003h with RET at 0008h and at 0010h
FramePrograms ==
    {<<0>>, <<195, 0, 0>>, <<118>>, ProgStackWrap,
     <<49, 0, 64, 195, 3, 0, 0, 0, 201, 0, 0, 0, 0, 0, 0, 0, 201>>}

\* the keys the host reacts to between two frames
Keys == {"none", "escape", "ctrl_r"}

\* Emulator::step: one step of the CPU, its event taken from the slot; Halt
\* is reported in place of the cycles
emulator_step(s) ==
    LET status(r) ==
            IF r.s.panicked
            THEN [s |-> r.s, status |-> "Abort", c |-> 0, opcode |-> r.opcode, ev |-> None]
            ELSE [s |-> event_take(r.s),
                  status |-> IF event_ret(r.s) = Halt THEN "Halt" ELSE "Continue",
                  c |-> IF event_ret(r.s) = Halt THEN 0 ELSE r.cycles,
                  opcode |-> r.opcode, ev |-> event_ret(r.s)]
    IN status(step(s))

\* cycles += c * 4 as it would be if the cycles were taken for T-states
AccumulateRaw(cycles, n) == cycles + n

\* cycles += c * 4
Accumulate(cycles, n) == cycles + n * 4

\* the mid-line test as it would be if it did not look at the count
MidLineDueAtOnce(isr_done, cycles) == ~isr_done

\* !isr_done && cycles >= CYCLES_PER_FRAME / 2
MidLineDue(isr_done, cycles) == ~isr_done /\ cycles >= CYCLES_PER_FRAME \div 2

\* where the loop stands once an iteration is over
LoopTest(cycles) == IF cycles < CYCLES_PER_FRAME THEN "while" ELSE "vblank"

InLoop == host.at \in {"while", "mid"}

\* the input events of one frame, and the entry into its stepping loop
HostPoll ==
    /\ ~panicked
    /\ host.at = "poll"
    /\ host.frame < MaxFrames
    /\ \E key \in Keys :
          LET paused == IF key = "escape" THEN ~host.paused ELSE host.paused
          IN /\ IF key = "ctrl_r"
                THEN /\ SetCPU(reset(CPU))
                     /\ last' = Call("reset", 0, 0, 0, None)
                     /\ pre' = CPU
                     /\ prev' = last
                ELSE UNCHANGED <<cpu_vars, panicked, last, pre, prev>>
             /\ host' =
                  IF paused
                  THEN [host EXCEPT !.paused = TRUE, !.frame = @ + 1, !.cycles = 0,
                                    !.isr_done = FALSE, !.steps = 0, !.ints = <<>>]
                  ELSE [host EXCEPT !.paused = FALSE, !.at = "while", !.cycles = 0,
                                    !.isr_done = FALSE, !.steps = 0, !.ints = <<>>]
    /\ UNCHANGED <<program, overflow_checks, nsteps, ncalls, pending>>

\* one iteration of the stepping loop, up to the mid-line test
HostStep ==
    /\ ~panicked
    /\ host.at = "while"
    /\ host.cycles < CYCLES_PER_FRAME
    /\ \E r \in {emulator_step(CPU)} :
       LET cycles == Accumulate(host.cycles, r.c)
       IN /\ SetCPU(r.s)
          /\ last' = Call("step", 0, r.opcode, r.c, r.ev)
          /\ host' =
               [host EXCEPT
                   !.steps = @ + 1,
                   !.cycles = cycles,
                   !.at = CASE r.status = "Abort" -> "aborted"
                            [] r.status = "Halt" -> "vblank"
                            [] OTHER ->
                                 IF MidLineDue(host.isr_done, cycles) THEN "mid"
                                 ELSE LoopTest(cycles)]
    /\ pre' = CPU
    /\ prev' = last
    /\ UNCHANGED <<program, overflow_checks, nsteps, ncalls, pending>>

\* the mid-line interrupt, and the loop's test after it
HostMidLine ==
    /\ ~panicked
    /\ host.at = "mid"
    /\ \E s \in {interrupt(CPU, 1)} :
          /\ SetCPU(s)
          /\ host' = [host EXCEPT !.isr_done = TRUE, !.ints = Append(@, 1),
                                  !.at = IF s.panicked THEN "aborted"
                                         ELSE LoopTest(host.cycles)]
    /\ last' = Call("interrupt", 1, 0, 0, None)
    /\ pre' = CPU
    /\ prev' = last
    /\ UNCHANGED <<program, overflow_checks, nsteps, ncalls, pending>>

\* the VBlank interrupt after the loop, and the end of the frame
HostVBlank ==
    /\ ~panicked
    /\ host.at = "vblank"
    /\ \E s \in {interrupt(CPU, 2)} :
          /\ SetCPU(s)
          /\ host' = IF s.panicked
                     THEN [host EXCEPT !.ints = Append(@, 2), !.at = "aborted"]
                     ELSE [host EXCEPT !.ints = Append(@, 2), !.at = "poll",
                                       !.frame = @ + 1]
    /\ last' = Call("interrupt", 2, 0, 0, None)
    /\ pre' = CPU
    /\ prev' = last
    /\ UNCHANGED <<program, overflow_checks, nsteps, ncalls, pending>>

NextFrame == HostPoll \/ HostStep \/ HostMidLine \/ HostVBlank

InitFrame == InitWith(FramePrograms)

SpecFrame == InitFrame /\ [][NextFrame]_vars

\* the host's thread has a statement to run
CanMove ==
    /\ ~panicked
    /\ \/ host.at \in {"while", "mid", "vblank"}
       \/ host.at = "poll" /\ host.frame < MaxFrames

\* the locals the host's next statement may leave
HostAfter ==
    CASE host.at = "poll" ->
            {[host EXCEPT !.paused = TRUE, !.frame = @ + 1, !.cycles = 0,
                          !.isr_done = FALSE, !.steps = 0, !.ints = <<>>],
             [host EXCEPT !.paused = FALSE, !.at = "while", !.cycles = 0,
                          !.isr_done = FALSE, !.steps = 0, !.ints = <<>>]}
      [] host.at = "while" ->
            {[host EXCEPT !.steps = @ + 1, !.cycles = Accumulate(@, n), !.at = at] :
                n \in 0 .. 5, at \in {"aborted", "vblank", "mid", "while"}}
      [] host.at = "mid" ->
            {[host EXCEPT !.isr_done = TRUE, !.ints = Append(@, 1), !.at = at] :
                at \in {"aborted", "vblank", "while"}}
      [] host.at = "vblank" ->
            {[host EXCEPT !.ints = Append(@, 2), !.at = "aborted"],
             [host EXCEPT !.ints = Append(@, 2), !.at = "poll", !.frame = @ + 1]}
      [] OTHER -> {}

\* NextFrame as the host's locals see it: every statement changes them
HostAdvance == CanMove /\ host' \in HostAfter

\* the host's thread runs its next statement as long as it has one
SpecFrameLive == SpecFrame /\ WF_host(HostAdvance)

(* C27: in every non-paused frame at most two interrupts are injected,     *)
(* each between steps: interrupt(1) at most once, only once the count of   *)
(* 4 x the returned cycles has reached CYCLES_PER_FRAME / 2; interrupt(2)  *)
(* exactly once, after the stepping loop has exited; interrupt(1) before   *)
(* interrupt(2).                                                           *)
C27_FrameInterrupts ==
    /\ [](/\ host.ints \in {<<>>, <<1>>, <<2>>, <<1, 2>>}
          /\ (InLoop => host.ints \in {<<>>, <<1>>})
          /\ (host.ints \in {<<1>>, <<1, 2>>} <=>
                host.isr_done /\ host.cycles >= CYCLES_PER_FRAME \div 2)
          /\ (host.at = "vblank" =>
                \/ host.cycles >= CYCLES_PER_FRAME
                \/ last.op = "step" /\ last.ev = Halt))
    /\ [][/\ (host'.ints # host.ints /\ host'.ints # <<>> =>
                /\ last'.op = "interrupt"
                /\ host'.ints = Append(host.ints, last'.arg)
                /\ (last'.arg = 1 =>
                      /\ host.at = "mid" /\ last.op = "step"
                      /\ host.cycles >= CYCLES_PER_FRAME \div 2)
                /\ (last'.arg = 2 => host.at = "vblank" /\ ~InLoop'))
          /\ (last'.op = "interrupt" /\ host.at # "poll" =>
                host'.ints = Append(host.ints, last'.arg))
          /\ (host'.frame # host.frame /\ host.at # "poll" =>
                /\ last'.op = "interrupt" /\ last'.arg = 2
                /\ host'.ints \in {<<2>>, <<1, 2>>})]_vars

\* a frame of JMP 0000h has ended: interrupt(1) at mid-frame, interrupt(2)
\* after the loop, the latter delivered
C27_Witness ==
    /\ program = <<195, 0, 0>>
    /\ host.frame = 1 /\ host.at = "poll" /\ ~host.paused
    /\ host.ints = <<1, 2>>
    /\ host.cycles >= CYCLES_PER_FRAME
    /\ last = Call("interrupt", 2, 0, 0, None)
    /\ pc = 16

(* C28 as stated: the stepping loop of a frame makes at most               *)
(* CYCLES_PER_FRAME / 4 steps.                                             *)
C28_StepsWithinQuarter ==
    host.steps <= CYCLES_PER_FRAME \div 4

(* C28, amended: every step the loop takes as Continue adds at least 4 to  *)
(* the count, the loop makes at most CYCLES_PER_FRAME / 4 rounded up       *)
(* steps in a frame, and the host always leaves the loop: on the count,    *)
(* on Halt, or because the step aborted.                                   *)
C28_FrameLoopTerminates ==
    /\ [](host.steps <= (CYCLES_PER_FRAME + 3) \div 4)
    /\ [][host'.steps = host.steps + 1 =>
            /\ last'.op = "step"
            /\ (InLoop' => last'.cycles >= 1 /\ host'.cycles >= host.cycles + 4)
            /\ (~InLoop' =>
                  \/ host'.cycles >= CYCLES_PER_FRAME
                  \/ last'.ev = Halt
                  \/ panicked')]_vars
    /\ (InLoop ~> ~InLoop)

\* LXI SP,4000h; JMP 0003h and the RET of the mid-line interrupt, 3 cycles
\* each: the frame's loop has ended after 2778 steps
C28_Witness ==
    /\ program = <<49, 0, 64, 195, 3, 0, 0, 0, 201, 0, 0, 0, 0, 0, 0, 0, 201>>
    /\ host.frame = 0 /\ host.at = "vblank"
    /\ host.steps = 2778 /\ host.cycles = 33336
    /\ host.ints = <<1>>
    /\ last.op = "step" /\ last.opcode = 195 /\ last.cycles = 3

---------------------------------------------------------------------------
(* Interrupts served by handlers that return. *)

\* LXI SP,4000h; INR A; JMP 0003h, with PUSH PSW; POP PSW; RET at 0008h and
\* RET at 0010h; the same with the stack at 0010h, in ROM
ServicePrograms ==
    {<<49, 0, hi, 60, 195, 3, 0, 0, 245, 241, 201, 0, 0, 0, 0, 0, 201>> : hi \in {64, 0}}

InitService == InitWith(ServicePrograms)

\* pending after an interrupt that took the CPU from s to t: a delivered
\* interrupt is remembered with the PC and SP it found
PendingAfterInterrupt(s, t) ==
    IF s.interrupt_status = Enabled /\ ~t.panicked
    THEN Append(pending, [p |-> s.pc, s |-> s.sp])
    ELSE pending

\* pending after a step that took the CPU from s to t: a return executed
\* with SP where the last delivery left it ends that interrupt
PendingAfterStep(s, t) ==
    IF /\ pending # <<>>
       /\ ~t.panicked
       /\ MemRead(s.memory, s.pc) \in {201, 217, 192, 200, 208, 216, 224, 232, 240, 248}
       /\ t.sp = (s.sp + 2) % U16
       /\ s.sp = (pending[Len(pending)].s + U16 - 2) % U16
    THEN SubSeq(pending, 1, Len(pending) - 1)
    ELSE pending

\* a step, the interrupt it returns from no longer pending
ServiceStep ==
    /\ ~panicked
    /\ nsteps < MaxSteps
    /\ \E r \in {step(CPU)} :
          /\ SetCPU(r.s)
          /\ last' = Call("step", 0, r.opcode, IF r.s.panicked THEN 0 ELSE r.cycles, None)
          /\ pending' = PendingAfterStep(CPU, r.s)
    /\ pre' = CPU
    /\ prev' = last
    /\ nsteps' = nsteps + 1
    /\ UNCHANGED <<program, overflow_checks, ncalls, host>>

\* an interrupt, pending once delivered
ServiceInterrupt ==
    /\ ~panicked
    /\ ncalls < MaxCalls
    /\ \E n \in IntNums :
          \E s \in {interrupt(CPU, n)} :
             /\ SetCPU(s)
             /\ last' = Call("interrupt", n, 0, 0, None)
             /\ pending' = PendingAfterInterrupt(CPU, s)
    /\ pre' = CPU
    /\ prev' = last
    /\ ncalls' = ncalls + 1
    /\ UNCHANGED <<program, overflow_checks, nsteps, host>>

NextService == ServiceStep \/ ServiceInterrupt

SpecService == InitService /\ [][NextService]_vars

\* the interrupt delivered last and not yet returned from
Top == pending[Len(pending)]

\* the last step has returned from the interrupt delivered last, the
\* handler's pushes and pops balanced and the return address in RAM
Returned ==
    /\ last'.op = "step" /\ ~panicked'
    /\ pending # <<>>
    /\ MemRead(memory, pc) \in RetOps \cup CondRetOps
    /\ sp' = (sp + 2) % U16
    /\ sp = (Top.s + U16 - 2) % U16
    /\ InRam(sp) /\ InRam((sp + 1) % U16)

(* C30: an interrupt is transparent to the control flow of the code it     *)
(* interrupts: delivered between two steps with PC = p and SP = s, the     *)
(* stack bytes in RAM, and its handler executing RET with its pushes and   *)
(* pops balanced, it leaves PC = p and SP = s after that RET; so does an   *)
(* interrupt delivered and returned from inside a handler.                 *)
C30_InterruptTransparent ==
    /\ [][last'.op = "interrupt" /\ ~panicked' /\ interrupt_status = Enabled =>
            /\ pending' = Append(pending, [p |-> pc, s |-> sp])
            /\ pc' = 8 * last'.arg
            /\ sp' = (sp + U16 - 2) % U16]_vars
    /\ [][Returned =>
            /\ pc' = Top.p /\ sp' = Top.s
            /\ pending' = SubSeq(pending, 1, Len(pending) - 1)]_vars

\* interrupt(1) at 0003h, then interrupt(2) after the handler's PUSH PSW:
\* the RET at 0010h has come back to 0009h with SP = 3FFCh
C30_Witness ==
    /\ Stepped(201) /\ prev = Call("interrupt", 2, 0, 0, None)
    /\ pre.pc = 16 /\ pre.sp = 16378
    /\ pc = 9 /\ sp = 16380
    /\ pending = <<[p |-> 3, s |-> 16384]>>

====
